---- MODULE Spec2Model ----
(***************************************************************************)
(* A model of the sparkpelican pipeline: transcript acquisition with the   *)
(* subtitle -> audio fallback, concurrent content generation with          *)
(* per-field fallbacks, and publication into the content directory.        *)
(*                                                                         *)
(* Texts are sequences of one-character strings.  The repository holds two *)
(* generations of the pipeline; both are modelled and a run is tagged by   *)
(* the entry point that drives it:                                         *)
(*   "script"  process_youtube_video.py + src/youtube/transcript.py        *)
(*             + src/ai/ai_generator.py + src/pelican/integrator.py        *)
(*   "spark"   spark_youtube/processor.py + core/transcript/extractor.py   *)
(*             + core/ai/generator.py + core/integrator/pelican.py         *)
(***************************************************************************)
EXTENDS Integers, Sequences, FiniteSets, TLC

\* ------------------------------------------------------------------------
\* Bounds of the model
\* ------------------------------------------------------------------------
MaxRuns == 2

\* temp_audio_file before a temporary file is created (Python None)
NoFile == 0

\* The value of a call that has not returned a transcript
NoTranscript == [text |-> <<>>, source |-> "NONE"]

\* ------------------------------------------------------------------------
\* State
\* ------------------------------------------------------------------------
VARIABLES
    \* --- transcript acquirer ---
    acquirer,                     \* which acquirer runs: "get_transcript_async" | "extract_transcript"
    YOUTUBE_TRANSCRIPT_AVAILABLE, \* module flag: youtube-transcript-api imported
    YT_DLP_AVAILABLE,             \* module flag: yt-dlp imported
    GENAI_AVAILABLE,              \* module flag: google-generativeai imported
    run,                          \* number of the current call (names its temp file)
    urlOk,                        \* the call's URL holds an extractable video id
    acq_pc,                       \* position of the acquirer coroutine
    subsOutcome,                  \* how the subtitle stage ended in this call
    audioOutcome,                 \* how the audio stage ended in this call
    audioStarted,                 \* the audio download was started in this call
    subsText,                     \* text the subtitle stage produced (if any)
    audioText,                    \* text the transcription produced (if any)
    transcript,                   \* the value returned by the call, NoTranscript before/without one
    temp_audio_file,              \* local of _transcribe_audio_async
    tmpdir                        \* temp directory: file name -> "absent" | "empty" | "data"

acqVars == <<acquirer, YOUTUBE_TRANSCRIPT_AVAILABLE, YT_DLP_AVAILABLE, GENAI_AVAILABLE,
             run, urlOk, acq_pc, subsOutcome, audioOutcome, audioStarted,
             subsText, audioText, transcript, temp_audio_file, tmpdir>>

VARIABLES
    \* --- content generator ---
    generator,      \* "AIGenerator" | "ContentGenerator" | "MyappGenerator"
    opt,            \* which optional inputs the caller supplied
    gen_pc,         \* position of generate_post_async / generate_post_data
    task,           \* per field: "new" | "running" | "done"
    aiOutcome,        \* per field: how its AI call ended
    value,          \* per field: where its value came from
    post            \* the returned post: its keys, and each field's origin

genVars == <<generator, opt, gen_pc, task, aiOutcome, value, post>>

VARIABLES
    \* --- slug derivation ---
    slugGen,        \* the generator whose slug code runs
    slugTitle,      \* the title both videos carry
    video_ids,      \* the ids of the two videos
    derived,        \* the videos whose slug has been derived
    post_slug       \* per video: the derived slug

slugVars == <<slugGen, slugTitle, video_ids, derived, post_slug>>

VARIABLES
    \* --- publication ---
    pipeline,         \* "script" | "spark": the entry point that runs
    today,            \* the day datetime.now() shows
    pubRun,           \* number of the current run (its timestamp)
    content_dir,      \* the content directory: file name -> document
    pub_pc,           \* position of the run: "idle" | "generate" | "save"
    video,            \* the video of the current run
    force_regenerate, \* argument of process_single_video
    post_data,        \* the dictionary the generator returned
    log               \* the finished runs, oldest first

pubVars == <<pipeline, today, pubRun, content_dir, pub_pc, video, force_regenerate,
             post_data, log>>

VARIABLES
    \* --- documents ---
    docWriter,      \* the code that builds the document
    rawTitle,       \* the title the writer is called with
    docVideoId,     \* the video id of the post
    doc_pc,         \* "new" | "written" | "validated"
    written,        \* the values used, the document and its text
    validator,      \* the validator that read the document
    validation      \* its result

docVars == <<docWriter, rawTitle, docVideoId, doc_pc, written, validator, validation>>

VARIABLES
    \* --- video reference ---
    extractor,      \* the extract_video_id that runs: "myapp.main" | "youtube.transcript"
    youtube_url,    \* its argument
    urlKind,        \* how the argument is built: a recognized shape or an invalid input
    urlId,          \* the id the argument is built around, <<>> if none
    url_pc,         \* "new" | "done"
    extracted       \* the outcome of the call: raised, or the value returned

urlVars == <<extractor, youtube_url, urlKind, urlId, url_pc, extracted>>

VARIABLES
    \* --- batch processing ---
    video_urls,     \* argument of process_batch_videos: per URL, how its video behaves
    delay,          \* argument: seconds slept between two videos
    kwargs,         \* passed on to process_single_video
    batch_i,        \* the loop variable i of process_batch_videos
    batch_pc,       \* "loop" | "single" | "sleep" | "returned"
    processed,      \* the positions process_single_video was called for, in call order
    results         \* the list process_batch_videos builds and returns

batchVars == <<video_urls, delay, kwargs, batch_i, batch_pc, processed, results>>

VARIABLES
    \* --- the single-video pipeline ---
    GEMINI_API_KEY,      \* the environment holds the credential
    generator_instance,  \* module global of ai_generator: "None" | "AIGenerator"
    videoNo,             \* number of the video process_youtube_video is called for
    run_pc,              \* position of process_youtube_video
    effects,             \* the external calls made for the current video
    run_log              \* the finished calls: outcome, error and external calls made

runVars == <<GEMINI_API_KEY, generator_instance, videoNo, run_pc, effects, run_log>>

VARIABLES
    \* --- language detection ---
    langDetector,   \* the code that runs: "LanguageDetector" | "detect_transcript_language"
    langText,       \* the text it is called with, a sequence of code points
    primary,        \* how langdetect behaves in this call
    lang_pc,        \* "new" | "detected" (the entry point ran) | "fallback" (the fallback ran)
    detected        \* the outcome: raised, or the code returned

langVars == <<langDetector, langText, primary, lang_pc, detected>>

VARIABLES
    \* --- duplicate check ---
    md_files,       \* the documents content_dir.glob('*.md') yields, in its order
    wanted_id,      \* the youtube_id check_existing_post is called with
    dup_pc,         \* "new" | "checked"
    existing_post   \* the position of the document returned, 0 for None

dupVars == <<md_files, wanted_id, dup_pc, existing_post>>

VARIABLES
    \* --- subtitle track selection ---
    selector,        \* the code that selects: "_get_transcript_sync" | "_try_official_subtitles"
    transcript_list, \* the tracks of the video in listing order
    language,        \* the language asked for
    trk_pc,          \* "new" | "selected"
    selection        \* the outcome: the position of the track fetched, or why none was

trkVars == <<selector, transcript_list, language, trk_pc, selection>>

VARIABLES
    \* --- titles ---
    titleGen,        \* the generator: "AIGenerator" | "ContentGenerator"
    custom_title,    \* the custom override, <<>> for None
    youtube_title,   \* the title of the source platform, <<>> for None
    ai_title,        \* what _extract_best_title takes from the model's answer, or AIRaises
    title_transcript, \* the transcript the title is generated for
    key_topics,      \* what _extract_key_topics returns for it
    ttl_pc,          \* "new" | "done"
    post_title       \* the title of the post, where it came from, and the text it was cut from

ttlVars == <<titleGen, custom_title, youtube_title, ai_title, title_transcript,
             key_topics, ttl_pc, post_title>>

VARIABLES
    \* --- content manager ---
    cm_dir,        \* the content directory: the markdown files by name
    cm_backups,    \* the backup directory: the copies by backup name
    cm_run,        \* the number of the next command
    cm_command,    \* the last command run
    cm_dry_run,    \* whether it ran with --dry-run
    cm_result      \* what it reported: titles fixed, files renamed, backup created

cmVars == <<cm_dir, cm_backups, cm_run, cm_command, cm_dry_run, cm_result>>

vars == <<acqVars, genVars, slugVars, pubVars, docVars, urlVars, batchVars, runVars, langVars, dupVars, trkVars, ttlVars, cmVars>>

\* What an action of one component leaves alone.
AcqFrame == UNCHANGED <<genVars, slugVars, pubVars, docVars, urlVars, batchVars,
    runVars, langVars, dupVars, trkVars, ttlVars, cmVars>>
GenFrame == UNCHANGED <<acqVars, slugVars, pubVars, docVars, urlVars, batchVars,
    runVars, langVars, dupVars, trkVars, ttlVars, cmVars>>
SlugFrame == UNCHANGED <<acqVars, genVars, pubVars, docVars, urlVars, batchVars,
    runVars, langVars, dupVars, trkVars, ttlVars, cmVars>>
PubFrame == UNCHANGED <<acqVars, genVars, slugVars, docVars, urlVars, batchVars,
    runVars, langVars, dupVars, trkVars, ttlVars, cmVars>>
DocFrame == UNCHANGED <<acqVars, genVars, slugVars, pubVars, urlVars, batchVars,
    runVars, langVars, dupVars, trkVars, ttlVars, cmVars>>
UrlFrame == UNCHANGED <<acqVars, genVars, slugVars, pubVars, docVars, batchVars,
    runVars, langVars, dupVars, trkVars, ttlVars, cmVars>>
BatchFrame == UNCHANGED <<acqVars, genVars, slugVars, pubVars, docVars, urlVars,
    runVars, langVars, dupVars, trkVars, ttlVars, cmVars>>
RunFrame == UNCHANGED <<acqVars, genVars, slugVars, pubVars, docVars, urlVars,
    batchVars, langVars, dupVars, trkVars, ttlVars, cmVars>>
LangFrame == UNCHANGED <<acqVars, genVars, slugVars, pubVars, docVars, urlVars,
    batchVars, runVars, dupVars, trkVars, ttlVars, cmVars>>
DupFrame == UNCHANGED <<acqVars, genVars, slugVars, pubVars, docVars, urlVars,
    batchVars, runVars, langVars, trkVars, ttlVars, cmVars>>
TrkFrame == UNCHANGED <<acqVars, genVars, slugVars, pubVars, docVars, urlVars,
    batchVars, runVars, langVars, dupVars, ttlVars, cmVars>>
TtlFrame == UNCHANGED <<acqVars, genVars, slugVars, pubVars, docVars, urlVars,
    batchVars, runVars, langVars, dupVars, trkVars, cmVars>>
CmFrame == UNCHANGED <<acqVars, genVars, slugVars, pubVars, docVars, urlVars,
    batchVars, runVars, langVars, dupVars, trkVars, ttlVars>>

\* ------------------------------------------------------------------------
\* Text helpers (str methods used by the code)
\* ------------------------------------------------------------------------
IsSpace(c) == c = " "

RECURSIVE LStrip(_)
LStrip(s) == IF s # <<>> /\ IsSpace(Head(s)) THEN LStrip(Tail(s)) ELSE s

RECURSIVE RStrip(_)
RStrip(s) == IF s # <<>> /\ IsSpace(s[Len(s)]) THEN RStrip(SubSeq(s, 1, Len(s) - 1)) ELSE s

\* str.strip()
Strip(s) == RStrip(LStrip(s))

\* The least element of a non-empty set of numbers
Min(S) == CHOOSE x \in S : \A y \in S : x <= y

\* sub occurs in s at position p
IsAt(s, sub, p) ==
    /\ p >= 1
    /\ p + Len(sub) - 1 <= Len(s)
    /\ SubSeq(s, p, p + Len(sub) - 1) = sub

\* s.find(sub) + 1
Find(s, sub) ==
    LET hits == { p \in 1..Len(s) : IsAt(s, sub, p) }
    IN  IF hits = {} THEN 0 ELSE Min(hits)

\* sub in s
Contains(s, sub) == Find(s, sub) # 0

\* s.startswith(prefix)
StartsWith(s, prefix) ==
    Len(s) >= Len(prefix) /\ SubSeq(s, 1, Len(prefix)) = prefix

\* sep.join(parts)
RECURSIVE Join(_, _)
Join(sep, parts) ==
    IF parts = <<>> THEN <<>>
    ELSE IF Len(parts) = 1 THEN parts[1]
    ELSE parts[1] \o sep \o Join(sep, Tail(parts))

\* ------------------------------------------------------------------------
\* Inputs of the environment for the acquirer
\* ------------------------------------------------------------------------
\* What transcript.fetch() can deliver: lists of timed segments (their texts).
SegmentLists ==
    { <<>>,
      << <<"h", "i">> >>,
      << <<"h", "i">>, <<"y", "o">> >>,
      << <<" ">> >> }

\* How the subtitle request can end: a fetched segment list or one of the errors.
SubtitleErrors == {"disabled", "notfound", "error"}

\* What response.text of the transcription call can be.
ResponseTexts == { <<>>, <<" ">>, <<"o", "k">>, <<" ", "o", "k", " ">> }

TempStates == {"absent", "empty", "data"}

\* ------------------------------------------------------------------------
\* get_transcript_async (src/youtube/transcript.py)
\* ------------------------------------------------------------------------

\* What get_transcript_async does with the end of the subtitle stage: a fetched
\* list is joined and returned; every exception falls through to the audio stage.
NoFallbackOnDisabled(outcome) ==
    IF outcome = "fetched" THEN "return"
    ELSE IF outcome \in {"disabled", "notfound"} THEN "raise" ELSE "audio"

AlwaysAudio(outcome) == "audio"

SubtitleDisposition(outcome) ==
    IF outcome = "fetched" THEN "return" ELSE "audio"

\* The finally block of _transcribe_audio_async.
NoCleanup(dir, temp) == dir

FinallyCleanup(dir, temp) ==
    IF temp # NoFile /\ dir[temp] # "absent"
    THEN [dir EXCEPT ![temp] = "absent"]
    ELSE dir

\* The synchronous start of the audio stage, up to its first await: the
\* availability gate of get_transcript_async, then _transcribe_audio_async
\* creating its temporary file and dispatching the download.
EnterAudio ==
    IF ~(YT_DLP_AVAILABLE /\ GENAI_AVAILABLE)
    THEN /\ acq_pc' = "raised"
         /\ audioOutcome' = "unavailable"
         /\ UNCHANGED <<audioStarted, temp_audio_file, tmpdir>>
    ELSE IF ~urlOk
    THEN \* extract_video_id raises before the try block; wrapped by the caller
         /\ acq_pc' = "raised"
         /\ audioOutcome' = "failed"
         /\ UNCHANGED <<audioStarted, temp_audio_file, tmpdir>>
    ELSE /\ acq_pc' = "download"
         /\ audioStarted' = TRUE
         /\ temp_audio_file' = run
         /\ tmpdir' = [tmpdir EXCEPT ![run] = "empty"]
         /\ UNCHANGED audioOutcome

\* A call begins: subtitle request dispatched, or skipped when the API is missing
\* or the id cannot be extracted (the exception is caught and audio is tried).
GTA_Start ==
    /\ AcqFrame
    /\ acquirer = "get_transcript_async"
    /\ acq_pc = "idle"
    /\ IF YOUTUBE_TRANSCRIPT_AVAILABLE /\ urlOk
       THEN /\ acq_pc' = "subs"
            /\ subsOutcome' = "pending"
            /\ UNCHANGED <<audioOutcome, audioStarted, temp_audio_file, tmpdir>>
       ELSE /\ subsOutcome' = IF YOUTUBE_TRANSCRIPT_AVAILABLE THEN "error" ELSE "skipped"
            /\ EnterAudio
    /\ UNCHANGED <<acquirer, YOUTUBE_TRANSCRIPT_AVAILABLE, YT_DLP_AVAILABLE,
                   GENAI_AVAILABLE, run, urlOk, subsText, audioText, transcript>>

\* The subtitle request returns a segment list.
GTA_SubtitlesFetched ==
    /\ AcqFrame
    /\ acquirer = "get_transcript_async"
    /\ acq_pc = "subs"
    /\ \E segs \in SegmentLists :
         /\ subsOutcome' = "fetched"
         /\ subsText' = Join(<<" ">>, segs)
         /\ LET d == SubtitleDisposition("fetched") IN
              IF d = "return"
              THEN /\ transcript' = [text |-> Join(<<" ">>, segs), source |-> "SUBTITLE"]
                   /\ acq_pc' = "returned"
                   /\ UNCHANGED <<audioOutcome, audioStarted, temp_audio_file, tmpdir>>
              ELSE IF d = "audio"
              THEN /\ EnterAudio
                   /\ UNCHANGED transcript
              ELSE /\ acq_pc' = "raised"
                   /\ UNCHANGED <<transcript, audioOutcome, audioStarted,
                                  temp_audio_file, tmpdir>>
    /\ UNCHANGED <<acquirer, YOUTUBE_TRANSCRIPT_AVAILABLE, YT_DLP_AVAILABLE,
                   GENAI_AVAILABLE, run, urlOk, audioText>>

\* The subtitle request raises (TranscriptsDisabled, NoTranscriptFound, other).
GTA_SubtitlesRaised ==
    /\ AcqFrame
    /\ acquirer = "get_transcript_async"
    /\ acq_pc = "subs"
    /\ \E e \in SubtitleErrors :
         /\ subsOutcome' = e
         /\ IF SubtitleDisposition(e) = "audio"
            THEN EnterAudio
            ELSE /\ acq_pc' = "raised"
                 /\ UNCHANGED <<audioOutcome, audioStarted, temp_audio_file, tmpdir>>
    /\ UNCHANGED <<acquirer, YOUTUBE_TRANSCRIPT_AVAILABLE, YT_DLP_AVAILABLE,
                   GENAI_AVAILABLE, run, urlOk, subsText, audioText, transcript>>

\* The download returns: _download_audio_sync raised, or it returned and the
\* file is checked.  Every way out of the try block runs the finally block.
TAA_DownloadDone ==
    /\ AcqFrame
    /\ acq_pc = "download"
    /\ \E raised \in BOOLEAN, st \in TempStates :
         LET after == [tmpdir EXCEPT ![temp_audio_file] = st] IN
         IF raised \/ st \in {"absent", "empty"}
         THEN /\ tmpdir' = FinallyCleanup(after, temp_audio_file)
              /\ acq_pc' = "raised"
              /\ audioOutcome' = "failed"
         ELSE /\ tmpdir' = after
              /\ acq_pc' = "transcribe"
              /\ UNCHANGED audioOutcome
    /\ UNCHANGED <<acquirer, YOUTUBE_TRANSCRIPT_AVAILABLE, YT_DLP_AVAILABLE,
                   GENAI_AVAILABLE, run, urlOk, subsOutcome, audioStarted,
                   subsText, audioText, transcript, temp_audio_file>>

\* _transcribe_with_gemini_sync returns the stripped response text.
TAA_TranscribeReturned ==
    /\ AcqFrame
    /\ acq_pc = "transcribe"
    /\ \E resp \in ResponseTexts :
         /\ resp # <<>>
         /\ audioText' = Strip(resp)
         /\ transcript' = [text |-> Strip(resp), source |-> "AUDIO"]
    /\ tmpdir' = FinallyCleanup(tmpdir, temp_audio_file)
    /\ acq_pc' = "returned"
    /\ audioOutcome' = "ok"
    /\ UNCHANGED <<acquirer, YOUTUBE_TRANSCRIPT_AVAILABLE, YT_DLP_AVAILABLE,
                   GENAI_AVAILABLE, run, urlOk, subsOutcome, audioStarted,
                   subsText, temp_audio_file>>

\* _transcribe_with_gemini_sync raises: no API key, the remote call raising, or
\* an empty response.
TAA_TranscribeRaised ==
    /\ AcqFrame
    /\ acq_pc = "transcribe"
    /\ tmpdir' = FinallyCleanup(tmpdir, temp_audio_file)
    /\ acq_pc' = "raised"
    /\ audioOutcome' = "failed"
    /\ UNCHANGED <<acquirer, YOUTUBE_TRANSCRIPT_AVAILABLE, YT_DLP_AVAILABLE,
                   GENAI_AVAILABLE, run, urlOk, subsOutcome, audioStarted,
                   subsText, audioText, transcript, temp_audio_file>>

\* ------------------------------------------------------------------------
\* TranscriptExtractor.extract_transcript (spark_youtube/core/transcript/extractor.py)
\* ------------------------------------------------------------------------

\* re.sub(r'\s+', ' ', s)
RECURSIVE CollapseSpaces(_)
CollapseSpaces(s) ==
    IF s = <<>> THEN <<>>
    ELSE IF IsSpace(Head(s))
    THEN <<" ">> \o CollapseSpaces(LStrip(s))
    ELSE <<Head(s)>> \o CollapseSpaces(Tail(s))

\* The stripped, non-empty segment texts, in order.
RECURSIVE StrippedSegments(_)
StrippedSegments(segs) ==
    IF segs = <<>> THEN <<>>
    ELSE (IF Strip(Head(segs)) # <<>> THEN <<Strip(Head(segs))>> ELSE <<>>)
         \o StrippedSegments(Tail(segs))

\* TranscriptExtractor._format_transcript
FormatTranscript(segs) ==
    Strip(CollapseSpaces(Join(<<" ">>, StrippedSegments(segs))))

\* extract_transcript's test of the subtitle stage's text: `if transcript_text:`
ExtractorDisposition(text) ==
    IF text # <<>> THEN "return" ELSE "audio"

\* _try_audio_transcription is a stub that returns None; extract_transcript
\* then raises TranscriptError.  Nothing is downloaded.
ET_Audio ==
    /\ acq_pc' = "raised"
    /\ audioOutcome' = IF YT_DLP_AVAILABLE THEN "failed" ELSE "unavailable"
    /\ UNCHANGED <<audioStarted, temp_audio_file, tmpdir>>

ET_Start ==
    /\ AcqFrame
    /\ acquirer = "extract_transcript"
    /\ acq_pc = "idle"
    /\ IF ~urlOk
       THEN \* extract_video_id raises TranscriptError
            /\ acq_pc' = "raised"
            /\ UNCHANGED <<subsOutcome, audioOutcome, audioStarted, temp_audio_file, tmpdir>>
       ELSE IF ~YOUTUBE_TRANSCRIPT_AVAILABLE
       THEN /\ subsOutcome' = "skipped"
            /\ ET_Audio
       ELSE /\ acq_pc' = "subs"
            /\ subsOutcome' = "pending"
            /\ UNCHANGED <<audioOutcome, audioStarted, temp_audio_file, tmpdir>>
    /\ UNCHANGED <<acquirer, YOUTUBE_TRANSCRIPT_AVAILABLE, YT_DLP_AVAILABLE,
                   GENAI_AVAILABLE, run, urlOk, subsText, audioText, transcript>>

\* _fetch_transcript returns a segment list (an empty one when no track exists).
ET_SubtitlesFetched ==
    /\ AcqFrame
    /\ acquirer = "extract_transcript"
    /\ acq_pc = "subs"
    /\ \E segs \in SegmentLists :
         LET text == FormatTranscript(segs) IN
         IF ExtractorDisposition(text) = "return"
         THEN /\ subsOutcome' = "fetched"
              /\ subsText' = text
              /\ transcript' = [text |-> text, source |-> "SUBTITLE"]
              /\ acq_pc' = "returned"
              /\ UNCHANGED <<audioOutcome, audioStarted, temp_audio_file, tmpdir>>
         ELSE /\ subsOutcome' = "empty"
              /\ subsText' = text
              /\ ET_Audio
              /\ UNCHANGED transcript
    /\ UNCHANGED <<acquirer, YOUTUBE_TRANSCRIPT_AVAILABLE, YT_DLP_AVAILABLE,
                   GENAI_AVAILABLE, run, urlOk, audioText>>

\* The subtitle request raises; _try_official_subtitles returns None.
ET_SubtitlesRaised ==
    /\ AcqFrame
    /\ acquirer = "extract_transcript"
    /\ acq_pc = "subs"
    /\ \E e \in SubtitleErrors : subsOutcome' = e
    /\ ET_Audio
    /\ UNCHANGED <<acquirer, YOUTUBE_TRANSCRIPT_AVAILABLE, YT_DLP_AVAILABLE,
                   GENAI_AVAILABLE, run, urlOk, subsText, audioText, transcript>>

\* The caller makes its next call (a new URL, a new temporary file name).
NextCall ==
    /\ AcqFrame
    /\ acq_pc \in {"returned", "raised"}
    /\ run < MaxRuns
    /\ run' = run + 1
    /\ urlOk' \in BOOLEAN
    /\ acq_pc' = "idle"
    /\ subsOutcome' = "none"
    /\ audioOutcome' = "none"
    /\ audioStarted' = FALSE
    /\ subsText' = <<>>
    /\ audioText' = <<>>
    /\ transcript' = NoTranscript
    /\ temp_audio_file' = NoFile
    /\ UNCHANGED <<acquirer, YOUTUBE_TRANSCRIPT_AVAILABLE, YT_DLP_AVAILABLE,
                   GENAI_AVAILABLE, tmpdir>>

\* ------------------------------------------------------------------------
\* Content generation: AIGenerator.generate_post_async (src/ai/ai_generator.py),
\* ContentGenerator.generate_post_data (spark_youtube/core/ai/generator.py),
\* AIGenerator.generate_post_async (myapp/ai_generator.py)
\* ------------------------------------------------------------------------
Fields == {"title", "content", "summary", "tags"}

Generators == {"AIGenerator", "ContentGenerator", "MyappGenerator"}

\* How a field's AI call can end: text that is used, an exception, or (summary)
\* a text the acceptance test rejects.
AIOutcomes(f) == IF f = "summary" THEN {"ok", "raise", "rejected"} ELSE {"ok", "raise"}

\* The keys of the dictionary each generator returns.
PostKeys(g) ==
    {"title", "slug", "content", "front_matter", "youtube_id", "category", "tags", "summary"}
    \cup (IF g = "MyappGenerator" THEN {} ELSE {"filename"})
    \cup (IF g = "ContentGenerator" THEN {"language"} ELSE {})

NoPost == [keys |-> {}, origin |-> [f \in Fields |-> "none"]]

\* Fields whose value is taken from the caller without any AI call:
\* youtube_title (AIGenerator only), custom_title, explicit tags.
Given(g, o, f) ==
    \/ f = "title" /\ (o.custom_title \/ (g = "AIGenerator" /\ o.youtube_title))
    \/ f = "tags" /\ o.tags

\* Each sub-generator's own try/except: the AI text, or the heuristic fallback.
FieldOrigin(f, out) == IF out = "ok" THEN "ai" ELSE "fallback"

\* Is the title resolved by the coroutine itself before the other three
\* sub-generations exist?  AIGenerator awaits _generate_title_improved first.
TitleAwaitedFirst(g) == g = "AIGenerator"

\* _create_front_matter: ContentGenerator reads self.content_dir, an attribute
\* the class never sets, when a thumbnail path is passed (AttributeError).
FrontMatterRaises(g, o) == g = "ContentGenerator" /\ o.thumbnail

\* The fields dispatched when the gather is built.
GatherFields(g) == IF TitleAwaitedFirst(g) THEN Fields \ {"title"} ELSE Fields

\* Dispatch of a set of sub-generations: a given field returns at once, the
\* others start their AI call.
Dispatch(fs) ==
    /\ task' = [f \in Fields |->
                  IF f \in fs
                  THEN (IF Given(generator, opt, f) THEN "done" ELSE "running")
                  ELSE task[f]]
    /\ value' = [f \in Fields |->
                  IF f \in fs /\ Given(generator, opt, f) THEN "given" ELSE value[f]]
    /\ aiOutcome' = [f \in Fields |->
                  IF f \in fs /\ Given(generator, opt, f) THEN "notcalled" ELSE aiOutcome[f]]

\* The call begins and runs to its first await.
Gen_Start ==
    /\ GenFrame
    /\ gen_pc = "start"
    /\ IF TitleAwaitedFirst(generator) /\ ~Given(generator, opt, "title")
       THEN \* the title is awaited on its own before the gather is built
            /\ Dispatch(Fields \ GatherFields(generator))
            /\ gen_pc' = "await_title"
       ELSE \* a given title is ready without suspension
            /\ Dispatch(Fields)
            /\ gen_pc' = "gather"
    /\ UNCHANGED <<generator, opt, post>>

\* One sub-generation's AI call ends; its try/except yields the field's value.
Gen_FieldDone ==
    /\ GenFrame
    /\ \E f \in Fields :
         /\ task[f] = "running"
         /\ \E out \in AIOutcomes(f) :
              /\ aiOutcome' = [aiOutcome EXCEPT ![f] = out]
              /\ value' = [value EXCEPT ![f] = FieldOrigin(f, out)]
         /\ task' = [task EXCEPT ![f] = "done"]
    /\ UNCHANGED <<generator, opt, gen_pc, post>>

\* AIGenerator: the awaited title is there; now the other three are created
\* and gathered.
Gen_TitleResolved ==
    /\ GenFrame
    /\ gen_pc = "await_title"
    /\ task["title"] = "done"
    /\ Dispatch(GatherFields(generator))
    /\ gen_pc' = "gather"
    /\ UNCHANGED <<generator, opt, post>>

\* The gather has all its results: slug, filename, front matter and the full
\* document are assembled and the dictionary is returned; any exception on
\* the way is re-raised as AIGenerationError.
Gen_Assemble ==
    /\ GenFrame
    /\ gen_pc = "gather"
    /\ \A f \in Fields : task[f] = "done"
    /\ IF FrontMatterRaises(generator, opt)
       THEN /\ gen_pc' = "raised"
            /\ UNCHANGED post
       ELSE /\ gen_pc' = "returned"
            /\ post' = [keys |-> PostKeys(generator), origin |-> value]
    /\ UNCHANGED <<generator, opt, task, aiOutcome, value>>

\* The options a caller can pass: the myapp generator takes neither a
\* youtube_title nor a thumbnail.
Options(g) ==
    { o \in [custom_title : BOOLEAN, youtube_title : BOOLEAN,
             tags : BOOLEAN, thumbnail : BOOLEAN] :
        g = "MyappGenerator" => (~o.youtube_title /\ ~o.thumbnail) }

InitGen ==
    /\ generator \in Generators
    /\ opt \in Options(generator)
    /\ gen_pc = "start"
    /\ task = [f \in Fields |-> "new"]
    /\ aiOutcome = [f \in Fields |-> "none"]
    /\ value = [f \in Fields |-> "none"]
    /\ post = NoPost

\* The generator is not part of the run.
GenIdle ==
    /\ generator = "AIGenerator"
    /\ opt = [custom_title |-> FALSE, youtube_title |-> FALSE,
              tags |-> FALSE, thumbnail |-> FALSE]
    /\ gen_pc = "start"
    /\ task = [f \in Fields |-> "new"]
    /\ aiOutcome = [f \in Fields |-> "none"]
    /\ value = [f \in Fields |-> "none"]
    /\ post = NoPost

NextGen ==
    \/ Gen_Start
    \/ Gen_FieldDone
    \/ Gen_TitleResolved
    \/ Gen_Assemble


\* ------------------------------------------------------------------------
\* Slug derivation
\* ------------------------------------------------------------------------
\* len(post_slug) > 100 / post_slug[:100] in generate_post_async
SlugBodyMax == 100
\* video_id[:8]
IdPrefixLen == 8
\* slug[:50] in generate_slug
SparkSlugMax == 50
\* {11} in the patterns of extract_video_id
VideoIdLen == 11
\* Longest free tail of a modelled title
MaxTail == 3

\* The characters of the model and the classes the code's patterns name.
AsciiLower == {"a", "b", "d", "e", "i", "l", "n", "t", "u"}
AsciiUpper == {"A"}
Digits == {"1"}
AsciiAlnum == AsciiLower \cup AsciiUpper \cup Digits
Whitespace == {" "}
AllChars == AsciiAlnum \cup Whitespace \cup {"-", "_", "!"}

\* s[:n]
Take(s, n) == SubSeq(s, 1, IF Len(s) < n THEN Len(s) ELSE n)

\* c * n
Rep(c, n) == [i \in 1..n |-> c]

\* str.lower()
LowerChar(c) == IF c = "A" THEN "a" ELSE c
LowerStr(s) == [i \in 1..Len(s) |-> LowerChar(s[i])]

\* re.sub('[class]', '', s)
Remove(s, class) == SelectSeq(s, LAMBDA c : c \notin class)

\* re.sub('[class]+', rep, s): every maximal run of the class becomes rep
RECURSIVE SubRun(_, _, _)
SubRun(s, class, rep) ==
    IF s = <<>> THEN <<>>
    ELSE IF Head(s) \notin class THEN <<Head(s)>> \o SubRun(Tail(s), class, rep)
    ELSE IF Len(s) > 1 /\ s[2] \in class THEN SubRun(Tail(s), class, rep)
    ELSE rep \o SubRun(Tail(s), class, rep)

\* s.strip('-')
RECURSIVE StripHyphens(_)
StripHyphens(s) ==
    IF s # <<>> /\ Head(s) = "-" THEN StripHyphens(Tail(s))
    ELSE IF s # <<>> /\ s[Len(s)] = "-" THEN StripHyphens(SubSeq(s, 1, Len(s) - 1))
    ELSE s

\* slugify(text) of python-slugify with its defaults: lower-case, every run
\* outside [-a-zA-Z0-9] becomes a hyphen, hyphen runs collapse, strip hyphens.
slugify(text) ==
    StripHyphens(
        SubRun(SubRun(LowerStr(text), AllChars \ (AsciiAlnum \cup {"-"}), <<"-">>),
               {"-"}, <<"-">>))

\* AIGenerator.generate_post_async: slugify, cut to 100, append the id prefix.
AISlug(t, vid) ==
    LET s == slugify(t)
        cut == IF Len(s) > SlugBodyMax THEN Take(s, SlugBodyMax) ELSE s
    IN  cut \o <<"-">> \o Take(vid, IdPrefixLen)

untitled == <<"u", "n", "t", "i", "t", "l", "e", "d">>

\* ContentGenerator.generate_slug
generate_slug(t) ==
    IF t = <<>> THEN untitled
    ELSE LET s1 == LowerStr(t)
             s2 == Remove(s1, AllChars \ (AsciiAlnum \cup {"_", "-"} \cup Whitespace))
             s3 == SubRun(s2, Whitespace \cup {"_"}, <<"-">>)
             s4 == StripHyphens(s3)
         IN  Take(s4, SparkSlugMax)

\* The slug a generator derives for a video.
SlugFor(g, t, vid) ==
    IF g = "AIGenerator" THEN AISlug(t, vid) ELSE generate_slug(t)

\* Titles: a run of letters up to a length near the cuts, then a free tail.
TitleChars == {"a", "A", " ", "-", "!"}
HeadLens == {0, 1, SparkSlugMax - 1, SlugBodyMax - 1}
Tails == UNION { [1..n -> TitleChars] : n \in 0..MaxTail }
Titles == { Rep("a", h) \o tl : h \in HeadLens, tl \in Tails }

\* Video ids as extract_video_id accepts them: 11 characters of [a-zA-Z0-9_-].
VideoIds ==
    { Rep("a", VideoIdLen),
      Rep("b", VideoIdLen),
      Rep("a", IdPrefixLen) \o Rep("b", VideoIdLen - IdPrefixLen),
      <<"A">> \o Rep("a", VideoIdLen - 1),
      <<"-", "_">> \o Rep("a", VideoIdLen - 2) }

\* The slug of one of the two videos is derived.
DeriveSlug ==
    /\ SlugFrame
    /\ \E i \in {1, 2} \ derived :
         /\ post_slug' = [post_slug EXCEPT
                            ![i] = SlugFor(slugGen, slugTitle, video_ids[i])]
         /\ derived' = derived \cup {i}
    /\ UNCHANGED <<slugGen, slugTitle, video_ids>>

InitSlug ==
    /\ slugGen \in {"AIGenerator", "ContentGenerator"}
    /\ slugTitle \in Titles
    /\ video_ids \in VideoIds \X VideoIds
    /\ derived = {}
    /\ post_slug = <<<<>>, <<>>>>

\* Slug derivation is not part of the run.
SlugIdle ==
    /\ slugGen = "AIGenerator"
    /\ slugTitle = <<>>
    /\ video_ids = <<Rep("a", VideoIdLen), Rep("b", VideoIdLen)>>
    /\ derived = {}
    /\ post_slug = <<<<>>, <<>>>>

NextSlug == DeriveSlug

\* ------------------------------------------------------------------------
\* Publication: documents and file names
\* ------------------------------------------------------------------------
\* Runs of the pipeline in one behaviour, and days the clock can show
MaxPubRuns == 3
MaxDay == 2

\* A document is a sequence of tokens, a token a sequence of strings.
Marker == <<"---">>
NL == <<"\n">>
Summary == <<"S">>
Body == <<"B">>

\* f"{key}{value}"
KV(k, v) == << <<k>>, v >>

\* datetime.now().isoformat() of a run
Stamp(n) == Rep("t", n)

\* s.strip(chars)
RECURSIVE StripSet(_, _)
StripSet(s, class) ==
    IF s # <<>> /\ Head(s) \in class THEN StripSet(Tail(s), class)
    ELSE IF s # <<>> /\ s[Len(s)] \in class
         THEN StripSet(SubSeq(s, 1, Len(s) - 1), class)
    ELSE s

\* AIGenerator._create_front_matter: the lines joined, plus a newline.
AIFrontMatter(t, stamp, slug, vid, thumb) ==
    Join(<<NL>>,
         << KV("title: ", StripSet(StripSet(t, {"\""}), {"'"})),
            KV("date: ", stamp),
            KV("author: ", <<"AI Generated">>),
            KV("category: ", <<"General">>),
            KV("tags: ", <<"youtube, video, content">>),
            KV("slug: ", slug),
            KV("youtube_id: ", vid),
            KV("summary: ", Summary) >>
         \o (IF thumb THEN << KV("image: ", <<"thumb.jpg">>) >> ELSE <<>>))
    \o <<NL>>

\* full_content of AIGenerator.generate_post_async
AIFullContent(fm) ==
    <<Marker, NL>> \o fm \o <<NL, Marker, NL, NL, Summary, NL, NL, Body>>

\* ContentGenerator._create_front_matter (reached without a thumbnail only):
\* the lines joined, no newline after the last.
CGFrontMatter(t, stamp, slug, vid) ==
    Join(<<NL>>,
         << KV("title: ", t),
            KV("date: ", stamp),
            KV("author: ", <<"default_author">>),
            KV("category: ", <<"default_category">>),
            KV("tags: ", <<"tags">>),
            KV("slug: ", slug),
            KV("youtube_id: ", vid),
            KV("summary: ", Summary) >>)

\* full_content of ContentGenerator.generate_post_data
CGFullContent(fm) ==
    <<Marker, NL>> \o fm \o <<Marker, NL, NL, Summary, NL, NL, Body>>

\* PelicanIntegrator.create_front_matter for the dictionary the generator returns
create_front_matter(pd, stamp) ==
    Join(<<NL>>,
         << KV("title: ", pd.title),
            KV("date: ", stamp),
            KV("author: ", <<"default_author">>),
            KV("category: ", <<"default_category">>),
            KV("tags: ", <<"tags">>),
            KV("slug: ", pd.slug),
            KV("youtube_id: ", pd.youtube_id),
            << <<"summary: \"">>, Summary, <<"\"">> >>,
            KV("language: ", <<"en">>) >>)

\* full_content of PelicanIntegrator.save_post
SavePostContent(pd, stamp) ==
    <<Marker, NL>> \o create_front_matter(pd, stamp) \o <<Marker, NL, NL>>
    \o <<Summary, NL, NL>> \o pd.content

\* A check that takes any youtube_id line for a match
HasAnyYoutubeId(doc, vid) ==
    \E i \in 1..(Len(doc) - 1) : doc[i] = <<"youtube_id: ">>

\* f"youtube_id: {youtube_id}" in content
HasYoutubeId(doc, vid) ==
    \E i \in 1..(Len(doc) - 1) : doc[i] = <<"youtube_id: ">> /\ doc[i + 1] = vid

\* str(counter)
Decimal(n) == << <<"1">>, <<"2">>, <<"3">>, <<"4">>, <<"5">> >>[n]

\* f"{date}-{slug}.md", and f"{base_name}-{counter}.md" for counter >= 1
FileName(date, slug, counter) ==
    [date |-> date,
     stem |-> IF counter = 0 THEN slug ELSE slug \o <<"-">> \o Decimal(counter)]

\* No path (Python None)
NoPath == [date |-> 0, stem |-> <<>>]

\* The while loop of _generate_filename
RECURSIVE Probe(_, _, _, _)
Probe(dir, date, slug, counter) ==
    IF FileName(date, slug, counter) \in DOMAIN dir
    THEN Probe(dir, date, slug, counter + 1)
    ELSE FileName(date, slug, counter)

\* _generate_filename with ensure_unique
GenerateFilename(dir, date, slug) == Probe(dir, date, slug, 0)

\* The directory after open(path, 'w') and write(doc) ran as far as the
\* outcome says: not opened, cut after k tokens, or complete.
WriteFile(dir, path, doc, outcome, k) ==
    IF outcome = "open_failed" THEN dir
    ELSE [f \in DOMAIN dir \cup {path} |->
            IF f = path
            THEN (IF outcome = "ok" THEN doc ELSE Take(doc, k))
            ELSE dir[f]]

\* Where a write can break off: at once, after the youtube_id line, or before
\* the last token.
PartialCuts(doc) ==
    {0, Len(doc) - 1}
    \cup { i \in 1..Len(doc) : i > 1 /\ doc[i - 1] = <<"youtube_id: ">> }

WriteOutcomes == {"ok", "open_failed", "partial"}

\* The videos of the model: two videos that carry the same title.
Videos ==
    { [video_id |-> Rep("a", VideoIdLen), title |-> <<"a">>],
      [video_id |-> Rep("b", VideoIdLen), title |-> <<"a">>] }


NoVideo == [video_id |-> <<>>, title |-> <<>>]

NoPostData ==
    [title |-> <<>>, slug |-> <<>>, content |-> <<>>, youtube_id |-> <<>>,
     filename |-> NoPath]

\* The dictionary the pipeline's generator returns for a video.
PostData(p, v, date, stamp, thumb) ==
    IF p = "script"
    THEN LET t == Strip(v.title)
             slug == AISlug(t, v.video_id)
         IN  [title |-> t, slug |-> slug,
              content |-> AIFullContent(
                              AIFrontMatter(t, stamp, slug, v.video_id, thumb)),
              youtube_id |-> v.video_id,
              filename |-> FileName(date, slug, 0)]
    ELSE LET slug == generate_slug(v.title)
         IN  [title |-> v.title, slug |-> slug,
              content |-> CGFullContent(
                              CGFrontMatter(v.title, stamp, slug, v.video_id)),
              youtube_id |-> v.video_id,
              filename |-> FileName(date, slug, 0)]

\* The record of a finished run.
Finished(status, stage, path, doc) ==
    [video_id |-> video.video_id, force |-> force_regenerate, status |-> status,
     stage |-> stage, path |-> path, doc |-> doc, before |-> content_dir]

\* The run ends: its record is kept and the next call can begin.
Finish(entry) ==
    /\ log' = Append(log, entry)
    /\ pubRun' = pubRun + 1
    /\ pub_pc' = "idle"

\* datetime.now() shows the next day.
Tick ==
    /\ PubFrame
    /\ today < MaxDay
    /\ today' = today + 1
    /\ UNCHANGED <<pipeline, pubRun, content_dir, pub_pc, video, force_regenerate,
                   post_data, log>>

\* process_single_video up to its first await: the id is extracted and,
\* unless regeneration is forced, the directory is scanned for the id.
Spark_Begin ==
    /\ PubFrame
    /\ pipeline = "spark"
    /\ pub_pc = "idle"
    /\ pubRun <= MaxPubRuns
    /\ \E v \in Videos, force \in BOOLEAN :
         LET found == { f \in DOMAIN content_dir :
                           HasYoutubeId(content_dir[f], v.video_id) }
         IN  /\ video' = v
             /\ force_regenerate' = force
             /\ IF ~force /\ found # {}
                THEN \E f \in found :
                       /\ log' = Append(log,
                              [video_id |-> v.video_id, force |-> force,
                               status |-> "already_exists", stage |-> "check",
                               path |-> f, doc |-> <<>>, before |-> content_dir])
                       /\ pubRun' = pubRun + 1
                       /\ pub_pc' = "idle"
                ELSE /\ pub_pc' = "generate"
                     /\ UNCHANGED <<log, pubRun>>
    /\ UNCHANGED <<pipeline, today, content_dir, post_data>>

\* process_youtube_video up to its first await: the id is extracted.
Script_Begin ==
    /\ PubFrame
    /\ pipeline = "script"
    /\ pub_pc = "idle"
    /\ pubRun <= MaxPubRuns
    /\ \E v \in Videos : video' = v
    /\ force_regenerate' = FALSE
    /\ pub_pc' = "generate"
    /\ UNCHANGED <<pipeline, today, pubRun, content_dir, post_data, log>>

\* Transcript, thumbnail and generation: the post dictionary is there, or an
\* exception ends the run.
Pub_Generate ==
    /\ PubFrame
    /\ pub_pc = "generate"
    /\ \E acquired \in BOOLEAN, thumb \in BOOLEAN :
         IF acquired
            /\ ~(pipeline = "spark"
                 /\ FrontMatterRaises("ContentGenerator", [thumbnail |-> thumb]))
         THEN /\ post_data' = PostData(pipeline, video, today, Stamp(pubRun), thumb)
              /\ pub_pc' = "save"
              /\ UNCHANGED <<log, pubRun>>
         ELSE /\ Finish(Finished("error", "generate", NoPath, <<>>))
              /\ UNCHANGED post_data
    /\ UNCHANGED <<pipeline, today, content_dir, video, force_regenerate>>

\* The write of a save: the directory afterwards and the run's record.
SaveTo(path, doc) ==
    \E outcome \in WriteOutcomes, k \in PartialCuts(doc) :
         /\ outcome # "partial" => k = 0
         /\ content_dir' = WriteFile(content_dir, path, doc, outcome, k)
         /\ Finish(Finished(IF outcome = "ok" THEN "created" ELSE "error",
                            "save", path, doc))

\* PelicanIntegrator.save_post
Spark_Save ==
    /\ PubFrame
    /\ pipeline = "spark"
    /\ pub_pc = "save"
    /\ SaveTo(post_data.filename, SavePostContent(post_data, Stamp(pubRun)))
    /\ UNCHANGED <<pipeline, today, video, force_regenerate, post_data>>

\* save_markdown_post of src/pelican/integrator.py
Script_Save ==
    /\ PubFrame
    /\ pipeline = "script"
    /\ pub_pc = "save"
    /\ SaveTo(GenerateFilename(content_dir, today, post_data.slug),
              post_data.content)
    /\ UNCHANGED <<pipeline, today, video, force_regenerate, post_data>>

InitPub ==
    /\ pipeline \in {"script", "spark"}
    /\ today = 1
    /\ pubRun = 1
    /\ content_dir = <<>>
    /\ pub_pc = "idle"
    /\ video = NoVideo
    /\ force_regenerate = FALSE
    /\ post_data = NoPostData
    /\ log = <<>>

\* Publication is not part of the run.
PubIdle ==
    /\ pipeline = "script"
    /\ today = 1
    /\ pubRun = 1
    /\ content_dir = <<>>
    /\ pub_pc = "idle"
    /\ video = NoVideo
    /\ force_regenerate = FALSE
    /\ post_data = NoPostData
    /\ log = <<>>

NextPub ==
    \/ Tick
    \/ Spark_Begin
    \/ Script_Begin
    \/ Pub_Generate
    \/ Spark_Save
    \/ Script_Save

\* ------------------------------------------------------------------------
\* Titles: _clean_title and _title_case of AIGenerator and ContentGenerator
\* ------------------------------------------------------------------------
\* len(title) <= 60
TitleMax == 60
\* title[:57]
TitleCut == 57
\* last_space > 40
LastSpaceMin == 40
\* len(sentence) > 20 and len(sentence) < 100
SentenceMin == 20
SentenceMax == 100
\* sentence[:60]
SentenceCut == 60
\* key_topics[:40]
TopicsCut == 40
\* transcript.split('.')[:5]
SentencesTried == 5

\* Words of the model's long titles, and the most of them in one title
WordLen == 9
MaxWords == 6

LowerLetters == <<"a", "b", "c", "d", "e", "f", "g", "h", "i", "j", "k", "l", "m", "n", "o", "p", "q", "r", "s", "t", "u", "v", "w", "x", "y", "z">>
UpperLetters == <<"A", "B", "C", "D", "E", "F", "G", "H", "I", "J", "K", "L", "M", "N", "O", "P", "Q", "R", "S", "T", "U", "V", "W", "X", "Y", "Z">>
DigitChars == {"0", "1", "2", "3", "4", "5", "6", "7", "8", "9"}

\* str.upper() and str.lower() of one character
UpperOf(c) ==
    IF \E i \in 1..26 : LowerLetters[i] = c
    THEN UpperLetters[CHOOSE i \in 1..26 : LowerLetters[i] = c] ELSE c
LowerOf(c) ==
    IF \E i \in 1..26 : UpperLetters[i] = c
    THEN LowerLetters[CHOOSE i \in 1..26 : UpperLetters[i] = c] ELSE c

\* str.lower()
LowerAll(s) == [i \in 1..Len(s) |-> LowerOf(s[i])]

\* str.capitalize()
Capitalize(w) == IF w = <<>> THEN w ELSE <<UpperOf(Head(w))>> \o LowerAll(Tail(w))

\* s[n:]
Drop(s, n) == SubSeq(s, n + 1, Len(s))

\* str.endswith
EndsWith(s, suffix) ==
    Len(s) >= Len(suffix) /\ SubSeq(s, Len(s) - Len(suffix) + 1, Len(s)) = suffix

\* The length of the run of characters of a class at the start of s
RECURSIVE RunLen(_, _)
RunLen(s, class) ==
    IF s # <<>> /\ Head(s) \in class THEN 1 + RunLen(Tail(s), class) ELSE 0

\* str.split()
RECURSIVE TitleWords(_)
TitleWords(s) ==
    LET t == LStrip(s)
        n == RunLen(t, {t[i] : i \in DOMAIN t} \ {" "})
    IN  IF t = <<>> THEN <<>>
        ELSE <<SubSeq(t, 1, n)>> \o TitleWords(Drop(t, n))

small_words ==
    { <<"a">>,
      <<"a", "n">>,
      <<"a", "n", "d">>,
      <<"a", "s">>,
      <<"a", "t">>,
      <<"b", "u", "t">>,
      <<"b", "y">>,
      <<"f", "o", "r">>,
      <<"i", "n">>,
      <<"o", "f">>,
      <<"o", "n">>,
      <<"o", "r">>,
      <<"t", "h", "e">>,
      <<"t", "o">>,
      <<"w", "i", "t", "h">> }

\* _title_case: the first and the last word capitalized, the words between
\* them lowered if they are small words and capitalized otherwise.
TitleCaseWord(words, i) ==
    IF i = 1 \/ i = Len(words) THEN Capitalize(words[i])
    ELSE IF LowerAll(words[i]) \in small_words THEN LowerAll(words[i])
    ELSE Capitalize(words[i])

title_case(title) ==
    IF TitleWords(title) = <<>> THEN title
    ELSE Join(<<" ">>, [i \in 1..Len(TitleWords(title)) |->
                          TitleCaseWord(TitleWords(title), i)])

\* re.sub(term, '', s, flags=re.IGNORECASE) for a literal term
RECURSIVE RemoveTerm(_, _)
RemoveTerm(s, term) ==
    LET p == Find(LowerAll(s), term)
    IN  IF p = 0 THEN s
        ELSE SubSeq(s, 1, p - 1) \o RemoveTerm(Drop(s, p + Len(term) - 1), term)

\* video_terms, in the order of the loop.  The last entry of the list, '|',
\* is as a pattern the alternation of two empty patterns: it matches the
\* empty string only and its substitution changes nothing.
video_terms ==
    << <<"w", "a", "t", "c", "h", " ", "t", "h", "i", "s">>,
       <<"i", "n", " ", "t", "h", "i", "s", " ", "v", "i", "d", "e", "o">>,
       <<"e", "p", "i", "s", "o", "d", "e">>,
       <<"p", "a", "r", "t">>,
       <<"#">> >>

RECURSIVE RemoveTerms(_, _)
RemoveTerms(s, terms) ==
    IF terms = <<>> THEN s
    ELSE RemoveTerms(RemoveTerm(s, Head(terms)), Tail(terms))

\* What follows the label and its blanks, if s starts with the label
AfterLabel(s, label) ==
    IF StartsWith(LowerAll(s), label) THEN LStrip(Drop(s, Len(label))) ELSE s

\* re.sub(r'^(Title|Option)\s*\d+:\s*', '', s, flags=re.IGNORECASE)
DropNumbered(s, label) ==
    LET rest == AfterLabel(s, label)
        d == RunLen(rest, DigitChars)
    IN  IF StartsWith(LowerAll(s), label) /\ d > 0
           /\ Drop(rest, d) # <<>> /\ Head(Drop(rest, d)) = ":"
        THEN LStrip(Drop(rest, d + 1))
        ELSE s

DropOptionLabel(s) ==
    IF DropNumbered(s, <<"t", "i", "t", "l", "e">>) # s THEN DropNumbered(s, <<"t", "i", "t", "l", "e">>)
    ELSE DropNumbered(s, <<"o", "p", "t", "i", "o", "n">>)

\* re.sub(r'^BEST\s*TITLE:\s*', '', s, flags=re.IGNORECASE)
DropBestTitle(s) ==
    LET rest == AfterLabel(s, <<"b", "e", "s", "t">>)
    IN  IF StartsWith(LowerAll(s), <<"b", "e", "s", "t">>)
           /\ StartsWith(LowerAll(rest), <<"t", "i", "t", "l", "e", ":">>)
        THEN LStrip(Drop(rest, 6))
        ELSE s

\* re.sub(r'\s*\.\.\.$', '', s), then re.sub(r'\s+for\.\.\.$', '', s)
DropEllipsis(s) ==
    IF EndsWith(s, <<".", ".", ".">>) THEN RStrip(SubSeq(s, 1, Len(s) - 3)) ELSE s

DropForEllipsis(s) ==
    IF EndsWith(s, <<"f", "o", "r", ".", ".", ".">>) /\ RStrip(SubSeq(s, 1, Len(s) - 6)) # SubSeq(s, 1, Len(s) - 6)
    THEN RStrip(SubSeq(s, 1, Len(s) - 6))
    ELSE s

\* title.strip().strip('"').strip("'") and the strip of the grave accent,
\* a character the titles of the model do not hold
StripQuotes(title) == StripSet(StripSet(Strip(title), {"\""}), {"'"})

GeneratedBlogPost == <<"G", "e", "n", "e", "r", "a", "t", "e", "d", " ", "B", "l", "o", "g", " ", "P", "o", "s", "t">>

\* _clean_title; ContentGenerator's begins with `if not title`.
clean_title(g, title) ==
    IF g = "ContentGenerator" /\ title = <<>> THEN GeneratedBlogPost
    ELSE title_case(
           DropForEllipsis(DropEllipsis(
             Join(<<" ">>, TitleWords(
               RemoveTerms(DropBestTitle(DropOptionLabel(StripQuotes(title))),
                           video_terms))))))

\* ------------------------------------------------------------------------
\* Documents as text: writing and re-parsing the front matter
\* ------------------------------------------------------------------------

\* The characters of a string of the model.
Spell(s) ==
    CASE s = "---" -> <<"-", "-", "-">>
      [] s = "title: " -> <<"t", "i", "t", "l", "e", ":", " ">>
      [] s = "date: " -> <<"d", "a", "t", "e", ":", " ">>
      [] s = "author: " -> <<"a", "u", "t", "h", "o", "r", ":", " ">>
      [] s = "category: " -> <<"c", "a", "t", "e", "g", "o", "r", "y", ":", " ">>
      [] s = "tags: " -> <<"t", "a", "g", "s", ":", " ">>
      [] s = "slug: " -> <<"s", "l", "u", "g", ":", " ">>
      [] s = "youtube_id: " -> <<"y", "o", "u", "t", "u", "b", "e", "_", "i", "d", ":", " ">>
      [] s = "summary: " -> <<"s", "u", "m", "m", "a", "r", "y", ":", " ">>
      [] s = "image: " -> <<"i", "m", "a", "g", "e", ":", " ">>
      [] s = "language: " -> <<"l", "a", "n", "g", "u", "a", "g", "e", ":", " ">>
      [] s = "summary: \"" -> <<"s", "u", "m", "m", "a", "r", "y", ":", " ", "\"">>
      [] s = "AI Generated" -> <<"A", "I", " ", "G", "e", "n", "e", "r", "a", "t", "e", "d">>
      [] s = "General" -> <<"G", "e", "n", "e", "r", "a", "l">>
      [] s = "youtube, video, content" -> <<"y", "o", "u", "t", "u", "b", "e", ",", " ", "v", "i", "d", "e", "o", ",", " ", "c", "o", "n", "t", "e", "n", "t">>
      [] s = "default_author" -> <<"d", "e", "f", "a", "u", "l", "t", "_", "a", "u", "t", "h", "o", "r">>
      [] s = "default_category" -> <<"d", "e", "f", "a", "u", "l", "t", "_", "c", "a", "t", "e", "g", "o", "r", "y">>
      [] s = "tags" -> <<"t", "a", "g", "s">>
      [] s = "thumb.jpg" -> <<"t", "h", "u", "m", "b", ".", "j", "p", "g">>
      [] s = "en" -> <<"e", "n">>
      [] OTHER -> <<s>>

RECURSIVE Concat(_)
Concat(seqs) == IF seqs = <<>> THEN <<>> ELSE Head(seqs) \o Concat(Tail(seqs))

\* The text of a document: the characters of its tokens, in order.
Text(doc) ==
    LET flat == Concat(doc)
    IN  Concat([i \in 1..Len(flat) |-> Spell(flat[i])])

\* myapp AIGenerator._create_front_matter and its full_content
MyappFrontMatter(t, stamp, slug, vid) ==
    Join(<<NL>>,
         << KV("title: ", t),
            KV("date: ", stamp),
            KV("author: ", <<"AI Generated">>),
            KV("category: ", <<"General">>),
            KV("tags: ", <<"tags">>),
            KV("slug: ", slug),
            KV("youtube_id: ", vid),
            KV("summary: ", Summary) >>)

\* ContentGenerator._clean_title
CleanTitle(t) == clean_title("ContentGenerator", t)

\* The fields the front matter is read back for, by the characters of the key.
FieldKey ==
    [title |-> <<"t", "i", "t", "l", "e">>,
     date |-> <<"d", "a", "t", "e">>,
     author |-> <<"a", "u", "t", "h", "o", "r">>,
     category |-> <<"c", "a", "t", "e", "g", "o", "r", "y">>,
     tags |-> <<"t", "a", "g", "s">>,
     slug |-> <<"s", "l", "u", "g">>,
     youtube_id |-> <<"y", "o", "u", "t", "u", "b", "e", "_", "i", "d">>]

FrontMatterFields == DOMAIN FieldKey


\* Characters str.strip() removes
WS == {" ", "\n"}

\* post_content.find('---', n) for the 0-based n = from - 1; 0 stands for -1
FindMarker(text, from) ==
    LET hits == { i \in from..(Len(text) - 2) :
                     text[i] = "-" /\ text[i + 1] = "-" /\ text[i + 2] = "-" }
    IN  IF hits = {} THEN 0 ELSE Min(hits)

\* s.split(sep)
RECURSIVE SplitOn(_, _)
SplitOn(s, sep) ==
    LET at == { i \in 1..Len(s) : s[i] = sep }
    IN  IF at = {} THEN <<s>>
        ELSE <<SubSeq(s, 1, Min(at) - 1)>>
             \o SplitOn(SubSeq(s, Min(at) + 1, Len(s)), sep)

\* The loop that fills front_matter_dict, kept for the fields read back: a
\* stripped line with a colon that is no comment sets its stripped key to its
\* stripped value.
RECURSIVE FillDict(_, _)
FillDict(lines, d) ==
    IF lines = <<>> THEN d
    ELSE LET line == StripSet(Head(lines), WS)
             colons == { i \in 1..Len(line) : line[i] = ":" }
         IN  IF colons # {} /\ line[1] # "#"
             THEN LET c == Min(colons)
                      key == StripSet(SubSeq(line, 1, c - 1), WS)
                      val == StripSet(SubSeq(line, c + 1, Len(line)), WS)
                  IN  FillDict(Tail(lines),
                               [f \in DOMAIN d |->
                                   IF FieldKey[f] = key
                                   THEN [found |-> TRUE, value |-> val]
                                   ELSE d[f]])
             ELSE FillDict(Tail(lines), d)

\* datetime.fromisoformat accepts what isoformat() produced
IsIsoFormat(v) == \E n \in 1..Len(v) : v = Stamp(n)

NoFields == [f \in FrontMatterFields |-> [found |-> FALSE, value |-> <<>>]]

\* validate_pelican_front_matter (src/pelican/integrator.py)
validate_pelican_front_matter(post_content) ==
    IF Take(post_content, 3) # <<"-", "-", "-">>
    THEN [valid |-> FALSE, warnings |-> {}, fields |-> NoFields,
          errors |-> {"Content must start with --- for front matter"}]
    ELSE LET front_matter_end == FindMarker(post_content, 5)
         IN  IF front_matter_end = 0
             THEN [valid |-> FALSE, warnings |-> {}, fields |-> NoFields,
                   errors |-> {"Front matter must end with ---"}]
             ELSE LET front_matter ==
                          StripSet(SubSeq(post_content, 5, front_matter_end - 1), WS)
                      content_body ==
                          StripSet(SubSeq(post_content, front_matter_end + 3,
                                          Len(post_content)), WS)
                      d == FillDict(SplitOn(front_matter, "\n"), NoFields)
                      errors ==
                          { "Missing required field" : f \in
                               { g \in {"title", "date", "author"} : ~d[g].found } }
                          \cup { "Required field is empty" : f \in
                               { g \in {"title", "date", "author"} :
                                    d[g].found /\ d[g].value = <<>> } }
                      title == d["title"].value
                      warnings ==
                          (IF /\ d["title"].found
                              /\ title # <<>>
                              /\ Head(title) = "\""
                              /\ title[Len(title)] = "\""
                           THEN {"Title should not be wrapped in quotes"} ELSE {})
                          \cup (IF d["date"].found /\ ~IsIsoFormat(d["date"].value)
                                THEN {"Date should be in ISO format"} ELSE {})
                          \cup (IF content_body = <<>>
                                THEN {"Post body appears to be empty"} ELSE {})
                  IN  [valid |-> errors = {}, warnings |-> warnings,
                       fields |-> d, errors |-> errors]

\* validate_front_matter (myapp/main.py) for a front matter dictionary d
validate_front_matter(d) ==
    LET title == StripSet(d["title"].value, WS)
        issues ==
            { "Missing required field" : f \in
                 { g \in {"title", "date", "author"} : ~d[g].found } }
            \cup (IF d["title"].found /\ title = <<>>
                  THEN {"Title cannot be empty"} ELSE {})
            \cup (IF /\ d["title"].found
                     /\ title # <<>>
                     /\ Head(title) = "\""
                     /\ title[Len(title)] = "\""
                  THEN {"Title should not have quotes around it"} ELSE {})
            \cup (IF d["date"].found /\ ~IsIsoFormat(d["date"].value)
                  THEN {"Date must be in ISO format"} ELSE {})
            \cup (IF d["author"].found /\ StripSet(d["author"].value, WS) = <<>>
                  THEN {"Author cannot be empty"} ELSE {})
    IN  [valid |-> issues = {}, warnings |-> {}, fields |-> d, errors |-> issues]

\* Titles as the callers pass them: up to three free characters, alone or
\* between two letters.
MaxMid == 3
DocTitleChars == {"a", " ", "-", ":", "\"", "'"}
Mids == UNION { [1..n -> DocTitleChars] : n \in 0..MaxMid }
DocTitles == Mids \cup { <<"a">> \o mid \o <<"b">> : mid \in Mids }

DocVideoIds == { Rep("a", VideoIdLen), <<"-", "-">> \o Rep("a", VideoIdLen - 2) }

DocWriters == {"AIGenerator", "ContentGenerator", "MyappGenerator", "PelicanIntegrator"}

Validators == {"validate_pelican_front_matter", "validate_front_matter"}

\* The title a writer puts into the post for the title it is called with.
PostTitle(w, raw) ==
    IF w = "AIGenerator" THEN Strip(raw)
    ELSE IF w = "MyappGenerator" THEN raw
    ELSE CleanTitle(raw)

\* The slug a writer derives.
PostSlug(w, t, vid) ==
    IF w = "AIGenerator" THEN AISlug(t, vid)
    ELSE IF w = "MyappGenerator" THEN slugify(t)
    ELSE generate_slug(t)

\* The values a writer builds the front matter from, as text.
FrontMatterValues(w, t, stamp, slug, vid) ==
    [title |-> IF w = "AIGenerator"
               THEN StripSet(StripSet(t, {"\""}), {"'"}) ELSE t,
     date |-> stamp,
     author |-> IF w \in {"AIGenerator", "MyappGenerator"}
                THEN Spell("AI Generated") ELSE Spell("default_author"),
     category |-> IF w \in {"AIGenerator", "MyappGenerator"}
                  THEN Spell("General") ELSE Spell("default_category"),
     tags |-> IF w = "AIGenerator" THEN Spell("youtube, video, content")
              ELSE Spell("tags"),
     slug |-> slug,
     youtube_id |-> vid]

\* The document a writer produces.
Document(w, t, stamp, slug, vid, thumb) ==
    IF w = "AIGenerator"
    THEN AIFullContent(AIFrontMatter(t, stamp, slug, vid, thumb))
    ELSE IF w = "MyappGenerator"
    THEN CGFullContent(MyappFrontMatter(t, stamp, slug, vid))
    ELSE IF w = "ContentGenerator"
    THEN CGFullContent(CGFrontMatter(t, stamp, slug, vid))
    ELSE SavePostContent(
             PostData("spark", [video_id |-> vid, title |-> t], 1, stamp, FALSE),
             stamp)

NoValidation == [valid |-> TRUE, warnings |-> {}, fields |-> NoFields, errors |-> {}]

NoWritten ==
    [values |-> [f \in FrontMatterFields |-> <<>>], document |-> <<>>, text |-> <<>>]

\* A writer builds the document of a post.
Doc_Write ==
    /\ DocFrame
    /\ doc_pc = "new"
    /\ \E thumb \in BOOLEAN :
         LET t == PostTitle(docWriter, rawTitle)
             slug == PostSlug(docWriter, t, docVideoId)
             document == Document(docWriter, t, Stamp(1), slug, docVideoId,
                                  thumb /\ docWriter = "AIGenerator")
         IN  written' =
                 [values |-> FrontMatterValues(docWriter, t, Stamp(1), slug, docVideoId),
                  document |-> document,
                  text |-> Text(document)]
    /\ doc_pc' = "written"
    /\ UNCHANGED <<docWriter, rawTitle, docVideoId, validator, validation>>

\* A validator reads the document (the endpoint is given its front matter).
Doc_Validate ==
    /\ DocFrame
    /\ doc_pc = "written"
    /\ \E v \in Validators :
         /\ validator' = v
         /\ validation' =
              IF v = "validate_pelican_front_matter"
              THEN validate_pelican_front_matter(written.text)
              ELSE validate_front_matter(
                       [f \in FrontMatterFields |->
                           [found |-> TRUE, value |-> written.values[f]]])
    /\ doc_pc' = "validated"
    /\ UNCHANGED <<docWriter, rawTitle, docVideoId, written>>

InitDoc ==
    /\ docWriter \in DocWriters
    /\ rawTitle \in DocTitles
    /\ docVideoId \in DocVideoIds
    /\ doc_pc = "new"
    /\ written = NoWritten
    /\ validator = "validate_pelican_front_matter"
    /\ validation = NoValidation

\* Documents are not part of the run.
DocIdle ==
    /\ docWriter = "AIGenerator"
    /\ rawTitle = <<>>
    /\ docVideoId = Rep("a", VideoIdLen)
    /\ doc_pc = "new"
    /\ written = NoWritten
    /\ validator = "validate_pelican_front_matter"
    /\ validation = NoValidation

NextDoc ==
    \/ Doc_Write
    \/ Doc_Validate

\* ------------------------------------------------------------------------
\* Video reference: extract_video_id
\* ------------------------------------------------------------------------
\* Most extra query parameters appended to a URL
MaxParams == 2

Letters == {"a", "b", "c", "d", "e", "f", "g", "h", "i", "j", "k", "l", "m", "n", "o", "p", "q", "r", "s", "t", "u", "v", "w", "x", "y", "z"}
           \cup {"A", "B", "C", "D", "E", "F", "G", "H", "I", "J", "K", "L", "M", "N", "O", "P", "Q", "R", "S", "T", "U", "V", "W", "X", "Y", "Z"}
Decimals == {"0", "1", "2", "3", "4", "5", "6", "7", "8", "9"}

\* [a-zA-Z0-9_-]
IdChars == Letters \cup Decimals \cup {"_", "-"}

\* s.split(sep) for a separator of several characters
RECURSIVE SplitStr(_, _)
SplitStr(s, sep) ==
    LET p == Find(s, sep)
    IN  IF p = 0 THEN <<s>>
        ELSE <<SubSeq(s, 1, p - 1)>> \o SplitStr(SubSeq(s, p + Len(sep), Len(s)), sep)

\* What a call of extract_video_id ends with.
Raised == [raised |-> TRUE, value |-> <<>>]
Returned(id) == [raised |-> FALSE, value |-> id]

\* The alternatives of the first pattern, in the order the pattern lists them,
\* and the prefix of the second pattern.
url_patterns ==
    << << <<"v", "=">>, <<"/">>, <<"y", "o", "u", "t", "u", ".", "b", "e", "/">>,
          <<"e", "m", "b", "e", "d", "/">>,
          <<"s", "h", "o", "r", "t", "s", "/">> >>,
       << <<"y", "o", "u", "t", "u", "b", "e", ".", "c", "o", "m", "/", "v", "/">> >> >>

\* ([a-zA-Z0-9_-]{11}) at position p
GroupAt(u, p) ==
    /\ p + VideoIdLen - 1 <= Len(u)
    /\ \A i \in p..(p + VideoIdLen - 1) : u[i] \in IdChars

\* The alternatives of a pattern that match at position p
MatchesAt(pattern, u, p) ==
    { k \in 1..Len(pattern) :
        IsAt(u, pattern[k], p) /\ GroupAt(u, p + Len(pattern[k])) }

\* re.search(pattern, youtube_url): the leftmost position with a match and
\* there the first alternative that matches; <<>> stands for no match.
search(pattern, u) ==
    LET starts == { p \in 1..Len(u) : MatchesAt(pattern, u, p) # {} }
    IN  IF starts = {} THEN <<>>
        ELSE LET p == Min(starts)
                 k == Min(MatchesAt(pattern, u, p))
                 g == p + Len(pattern[k])
             IN  SubSeq(u, g, g + VideoIdLen - 1)

\* extract_video_id of youtube/transcript.py: match.group(1) of the first
\* pattern that matches, ValueError if none does.
extract_video_id(u) ==
    IF search(url_patterns[1], u) # <<>> THEN Returned(search(url_patterns[1], u))
    ELSE IF search(url_patterns[2], u) # <<>> THEN Returned(search(url_patterns[2], u))
    ELSE Raised

\* urllib.parse.urlparse for URLs without ';': scheme, netloc, path, query.
scheme_chars == Letters \cup Decimals \cup {"+", "-", "."}

\* The position of the ':' that ends the scheme, 0 if the text has no scheme
SchemeEnd(u) ==
    LET colon == Find(u, <<":">>)
    IN  IF /\ colon > 1
           /\ u[1] \in Letters
           /\ \A i \in 1..(colon - 1) : u[i] \in scheme_chars
        THEN colon ELSE 0

\* The position after a netloc that follows '//', 0 if there is no '//'
NetlocEnd(rest) ==
    LET delims == { i \in 3..Len(rest) : rest[i] \in {"/", "?", "#"} }
    IN  IF ~IsAt(rest, <<"/", "/">>, 1) THEN 0
        ELSE IF delims = {} THEN Len(rest) + 1
        ELSE Min(delims)

\* s.partition(c)[0] and s.partition(c)[2]
Before(s, c) ==
    LET p == Find(s, <<c>>) IN IF p = 0 THEN s ELSE SubSeq(s, 1, p - 1)
After(s, c) ==
    LET p == Find(s, <<c>>) IN IF p = 0 THEN <<>> ELSE SubSeq(s, p + 1, Len(s))

\* A parse that leaves the query in the path
urlparse_query_in_path(u) ==
    LET rest == SubSeq(u, SchemeEnd(u) + 1, Len(u))
        e == NetlocEnd(rest)
        noFragment == Before(IF e = 0 THEN rest ELSE SubSeq(rest, e, Len(rest)), "#")
    IN  [ scheme |-> SubSeq(u, 1, SchemeEnd(u) - 1),
          netloc |-> IF e = 0 THEN <<>> ELSE SubSeq(rest, 3, e - 1),
          path   |-> noFragment,
          query  |-> After(noFragment, "?") ]

urlparse(u) ==
    LET rest == SubSeq(u, SchemeEnd(u) + 1, Len(u))
        e == NetlocEnd(rest)
        noFragment == Before(IF e = 0 THEN rest ELSE SubSeq(rest, e, Len(rest)), "#")
    IN  [ scheme |-> SubSeq(u, 1, SchemeEnd(u) - 1),
          netloc |-> IF e = 0 THEN <<>> ELSE SubSeq(rest, 3, e - 1),
          path   |-> Before(noFragment, "?"),
          query  |-> After(noFragment, "?") ]

\* dict(param.split('=') for param in query.split('&') if '=' in param)
\* followed by .get(key): dict() raises ValueError when a parameter holds
\* more than one '='; a key given twice keeps its last value; a missing key
\* gives None, here <<>>.
QueryGet(query, key) ==
    LET params == SelectSeq(SplitOn(query, "&"),
                            LAMBDA p : \E i \in 1..Len(p) : p[i] = "=")
        pairs == [i \in 1..Len(params) |-> SplitOn(params[i], "=")]
        at == { i \in 1..Len(pairs) : pairs[i][1] = key }
    IN  IF \E i \in 1..Len(pairs) : Len(pairs[i]) # 2 THEN Raised
        ELSE IF at = {} THEN Returned(<<>>)
        ELSE Returned(pairs[CHOOSE i \in at : \A j \in at : j <= i][2])

\* The value the branches of extract_video_id assign to video_id
VideoIdIn(parsed_url) ==
    IF Contains(parsed_url.netloc, <<"y", "o", "u", "t", "u", ".", "b", "e">>)
    THEN Returned(SubSeq(parsed_url.path, 2, Len(parsed_url.path)))
    ELSE IF Contains(parsed_url.netloc, <<"y", "o", "u", "t", "u", "b", "e", ".", "c", "o", "m">>)
    THEN IF Contains(parsed_url.path, <<"/", "e", "m", "b", "e", "d", "/">>)
         THEN LET parts == SplitStr(parsed_url.path, <<"/", "e", "m", "b", "e", "d", "/">>)
              IN  Returned(parts[Len(parts)])
         ELSE QueryGet(parsed_url.query, <<"v">>)
    ELSE Returned(<<>>)

\* extract_video_id of myapp/main.py: a missing or empty id raises.
main_extract_video_id(u) ==
    LET video_id == VideoIdIn(urlparse(u))
    IN  IF video_id.raised \/ video_id.value = <<>> THEN Raised ELSE video_id

Extractors == {"myapp.main", "youtube.transcript"}

Extract(e, u) ==
    IF e = "myapp.main" THEN main_extract_video_id(u) ELSE extract_video_id(u)

\* --- the inputs ---
\* Ids of 11 characters of the alphabet
UrlIds ==
    { <<"d", "Q", "w", "4", "w", "9", "W", "g", "X", "c", "Q">>,
      <<"-", "_", "a", "a", "a", "a", "a", "a", "a", "a", "a">>,
      <<"v", "v", "v", "v", "v", "v", "v", "v", "v", "v", "v">>,
      <<"e", "m", "b", "e", "d", "s", "h", "o", "r", "t", "s">> }

\* Extra query parameters, as the tests append them
ExtraParams == { <<"t", "=", "3", "0", "s">>, <<"l", "i", "s", "t", "=", "P", "L", "r", "A", "X", "t", "m", "R", "d", "n", "E", "Q">> }

ParamLists == UNION { [1..n -> ExtraParams] : n \in 0..MaxParams }

\* The parameters appended after sep, further ones after '&'
RECURSIVE Appended(_, _)
Appended(sep, ps) ==
    IF ps = <<>> THEN <<>>
    ELSE sep \o Head(ps) \o Appended(<<"&">>, Tail(ps))

\* The recognized shapes around an id: watch, short and embed URLs
WatchUrl(id, ps) == <<"h", "t", "t", "p", "s", ":", "/", "/", "w", "w", "w", ".", "y", "o", "u", "t", "u", "b", "e", ".", "c", "o", "m", "/", "w", "a", "t", "c", "h", "?", "v", "=">>
                    \o id \o Appended(<<"&">>, ps)
ShortUrl(id, ps) == <<"h", "t", "t", "p", "s", ":", "/", "/", "y", "o", "u", "t", "u", ".", "b", "e", "/">> \o id
                    \o Appended(<<"?">>, ps)
EmbedUrl(id, ps) == <<"h", "t", "t", "p", "s", ":", "/", "/", "w", "w", "w", ".", "y", "o", "u", "t", "u", "b", "e", ".", "c", "o", "m", "/", "e", "m", "b", "e", "d", "/">>
                    \o id \o Appended(<<"?">>, ps)

ValidInputs ==
    { [kind |-> "watch", id |-> id, url |-> WatchUrl(id, ps)] :
        id \in UrlIds, ps \in ParamLists }
    \cup { [kind |-> "short", id |-> id, url |-> ShortUrl(id, ps)] :
             id \in UrlIds, ps \in ParamLists }
    \cup { [kind |-> "embed", id |-> id, url |-> EmbedUrl(id, ps)] :
             id \in UrlIds, ps \in ParamLists }

\* URLs of the platform without a video id
NoIdUrls ==
    { <<"h", "t", "t", "p", "s", ":", "/", "/", "w", "w", "w", ".", "y", "o", "u", "t", "u", "b", "e", ".", "c", "o", "m", "/", "w", "a", "t", "c", "h">>,
      <<"h", "t", "t", "p", "s", ":", "/", "/", "w", "w", "w", ".", "y", "o", "u", "t", "u", "b", "e", ".", "c", "o", "m", "/", "w", "a", "t", "c", "h", "?", "v", "=">>,
      <<"h", "t", "t", "p", "s", ":", "/", "/", "w", "w", "w", ".", "y", "o", "u", "t", "u", "b", "e", ".", "c", "o", "m", "/", "w", "a", "t", "c", "h", "?", "v", "=", "a", "b", "c", "1", "2", "3">>,
      <<"h", "t", "t", "p", "s", ":", "/", "/", "y", "o", "u", "t", "u", ".", "b", "e", "/">>,
      <<"h", "t", "t", "p", "s", ":", "/", "/", "y", "o", "u", "t", "u", ".", "b", "e", "/", "a", "b", "c">>,
      <<"h", "t", "t", "p", "s", ":", "/", "/", "w", "w", "w", ".", "y", "o", "u", "t", "u", "b", "e", ".", "c", "o", "m", "/", "c", "/", "S", "o", "m", "e", "C", "h", "a", "n", "n", "e", "l", "1">> }

\* URLs of other sites
OtherSiteUrls ==
    { <<"h", "t", "t", "p", "s", ":", "/", "/", "e", "x", "a", "m", "p", "l", "e", ".", "c", "o", "m", "/", "v", "i", "d", "e", "o", "?", "v", "=", "a", "b", "c", "1", "2", "3">>,
      <<"h", "t", "t", "p", "s", ":", "/", "/", "e", "x", "a", "m", "p", "l", "e", ".", "c", "o", "m", "/", "w", "a", "t", "c", "h", "?", "v", "=", "d", "Q", "w", "4", "w", "9", "W", "g", "X", "c", "Q">>,
      <<"h", "t", "t", "p", "s", ":", "/", "/", "e", "x", "a", "m", "p", "l", "e", ".", "c", "o", "m", "/", "t", "r", "a", "n", "s", "c", "r", "i", "p", "t", "s">> }

\* Strings that are no URL
NonUrls ==
    { <<>>,
      <<"n", "o", "t", "-", "a", "-", "u", "r", "l", "-", "a", "t", "-", "a", "l", "l">>,
      <<"d", "Q", "w", "4", "w", "9", "W", "g", "X", "c", "Q">>,
      <<"n", "o", "t", "e", "s", "/", "t", "r", "a", "n", "s", "c", "r", "i", "p", "t", "s">> }

InvalidInputs ==
    { [kind |-> "no_id", id |-> <<>>, url |-> u] : u \in NoIdUrls }
    \cup { [kind |-> "not_youtube", id |-> <<>>, url |-> u] : u \in OtherSiteUrls }
    \cup { [kind |-> "not_url", id |-> <<>>, url |-> u] : u \in NonUrls }

UrlInputs == ValidInputs \cup InvalidInputs

RecognizedShapes == {"watch", "short", "embed"}

NotExtracted == [raised |-> FALSE, value |-> <<>>]

\* One call of extract_video_id.
Url_Extract ==
    /\ UrlFrame
    /\ url_pc = "new"
    /\ extracted' = Extract(extractor, youtube_url)
    /\ url_pc' = "done"
    /\ UNCHANGED <<extractor, youtube_url, urlKind, urlId>>

InitUrl ==
    /\ extractor \in Extractors
    /\ \E inp \in UrlInputs :
         /\ youtube_url = inp.url
         /\ urlKind = inp.kind
         /\ urlId = inp.id
    /\ url_pc = "new"
    /\ extracted = NotExtracted

UrlIdle ==
    /\ extractor = "myapp.main"
    /\ youtube_url = <<>>
    /\ urlKind = "not_url"
    /\ urlId = <<>>
    /\ url_pc = "new"
    /\ extracted = NotExtracted

NextUrl == Url_Extract

\* ------------------------------------------------------------------------
\* Batch processing: SparkYouTubeProcessor.process_batch_videos
\* ------------------------------------------------------------------------
\* Most URLs in one batch
MaxBatch == 3

\* How the video behind a URL behaves: the step that raises for it ("none" if
\* no step does), whether str(e) of that exception holds 'youtube', and
\* whether a post for the video exists already.
Fates ==
    { [raises |-> "none", mentions_youtube |-> FALSE, exists |-> FALSE],
      [raises |-> "none", mentions_youtube |-> FALSE, exists |-> TRUE],
      [raises |-> "extract_video_id", mentions_youtube |-> FALSE, exists |-> FALSE],
      [raises |-> "extract_video_id", mentions_youtube |-> TRUE, exists |-> FALSE],
      [raises |-> "extract_transcript", mentions_youtube |-> TRUE, exists |-> FALSE],
      [raises |-> "generate_post_data", mentions_youtube |-> FALSE, exists |-> TRUE],
      [raises |-> "save_markdown_post", mentions_youtube |-> FALSE, exists |-> FALSE] }

\* The dictionaries of process_single_video and of the except branch of the
\* batch loop; position is the URL the dictionary was built for.
ResultDict(success, status, video_id, position) ==
    [success |-> success, status |-> status, video_id |-> video_id,
     position |-> position]

\* process_single_video for one URL: the dictionary it returns, or the
\* exception that leaves it. Its except branch calls extract_video_id again
\* when the message holds 'youtube', and that call raises again for a URL
\* without an id.
process_single_video(fate, force, position) ==
    IF fate.raises = "extract_video_id"
    THEN IF fate.mentions_youtube
         THEN [raised |-> TRUE,
               result |-> ResultDict(FALSE, "raised", "unknown", position)]
         ELSE [raised |-> FALSE,
               result |-> ResultDict(FALSE, "error", "unknown", position)]
    ELSE IF ~force /\ fate.exists
    THEN [raised |-> FALSE,
          result |-> ResultDict(TRUE, "already_exists", "video_id", position)]
    ELSE IF fate.raises # "none"
    THEN [raised |-> FALSE,
          result |-> ResultDict(FALSE, "error",
                                IF fate.mentions_youtube THEN "video_id" ELSE "unknown",
                                position)]
    ELSE [raised |-> FALSE,
          result |-> ResultDict(TRUE, "created", "video_id", position)]

\* An except branch that records nothing
ExceptSkips(res, position) == res

\* The except branch of the batch loop
ExceptAppends(res, position) ==
    Append(res, ResultDict(FALSE, "error", "unknown", position))

\* for i, url in enumerate(video_urls, 1): the call of process_single_video
Batch_Call ==
    /\ BatchFrame
    /\ batch_pc = "loop"
    /\ batch_i <= Len(video_urls)
    /\ processed' = Append(processed, batch_i)
    /\ batch_pc' = "single"
    /\ UNCHANGED <<video_urls, delay, kwargs, batch_i, results>>

\* process_single_video returned: the result is appended, and the loop
\* sleeps unless this was the last URL or delay is 0.
Batch_Returned ==
    /\ BatchFrame
    /\ batch_pc = "single"
    /\ LET out == process_single_video(video_urls[batch_i], kwargs.force_regenerate,
                                       batch_i)
       IN  /\ ~out.raised
           /\ results' = Append(results, out.result)
    /\ IF batch_i < Len(video_urls) /\ delay > 0
       THEN batch_pc' = "sleep" /\ UNCHANGED batch_i
       ELSE batch_pc' = "loop" /\ batch_i' = batch_i + 1
    /\ UNCHANGED <<video_urls, delay, kwargs, processed>>

\* process_single_video raised: the except branch of the loop records it.
Batch_Raised ==
    /\ BatchFrame
    /\ batch_pc = "single"
    /\ process_single_video(video_urls[batch_i], kwargs.force_regenerate,
                            batch_i).raised
    /\ results' = ExceptAppends(results, batch_i)
    /\ batch_pc' = "loop"
    /\ batch_i' = batch_i + 1
    /\ UNCHANGED <<video_urls, delay, kwargs, processed>>

\* await asyncio.sleep(delay) returned
Batch_Slept ==
    /\ BatchFrame
    /\ batch_pc = "sleep"
    /\ batch_pc' = "loop"
    /\ batch_i' = batch_i + 1
    /\ UNCHANGED <<video_urls, delay, kwargs, processed, results>>

\* return results
Batch_Return ==
    /\ BatchFrame
    /\ batch_pc = "loop"
    /\ batch_i > Len(video_urls)
    /\ batch_pc' = "returned"
    /\ UNCHANGED <<video_urls, delay, kwargs, batch_i, processed, results>>

InitBatch ==
    /\ video_urls \in UNION { [1..n -> Fates] : n \in 0..MaxBatch }
    /\ delay \in {0, 3}
    /\ kwargs \in [force_regenerate : BOOLEAN]
    /\ batch_i = 1
    /\ batch_pc = "loop"
    /\ processed = <<>>
    /\ results = <<>>

BatchIdle ==
    /\ video_urls = <<>>
    /\ delay = 3
    /\ kwargs = [force_regenerate |-> FALSE]
    /\ batch_i = 1
    /\ batch_pc = "loop"
    /\ processed = <<>>
    /\ results = <<>>

NextBatch ==
    \/ Batch_Call
    \/ Batch_Returned
    \/ Batch_Raised
    \/ Batch_Slept
    \/ Batch_Return

\* ------------------------------------------------------------------------
\* The single-video pipeline: process_youtube_video
\* ------------------------------------------------------------------------
\* Most videos the script is run for
MaxVideos == 2

\* What a finished call leaves in the log.
Entry(outcome, error, made) == [outcome |-> outcome, error |-> error, made |-> made]

\* return True / the except branch of process_youtube_video
Returns(outcome, error, made) ==
    /\ run_log' = Append(run_log, Entry(outcome, error, made))
    /\ run_pc' = "returned"

\* The positions at which the coroutine awaits an external call
Awaiting == {"subtitles", "audio_download", "transcription", "thumbnail", "ai"}

\* process_youtube_video is called; extract_video_id raises for a URL
\* without an id.
Run_Begin ==
    /\ RunFrame
    /\ run_pc \in {"new", "returned"}
    /\ videoNo < MaxVideos
    /\ videoNo' = videoNo + 1
    /\ effects' = {}
    /\ \E idOk \in BOOLEAN :
         IF idOk THEN run_pc' = "subtitles" /\ UNCHANGED run_log
         ELSE Returns("failed", "ValueError", {})
    /\ UNCHANGED <<GEMINI_API_KEY, generator_instance>>

\* get_transcript_async: the executor call of _get_transcript_sync returns
\* segments or raises; raising falls through to the audio stage.
Run_Subtitles ==
    /\ RunFrame
    /\ run_pc = "subtitles"
    /\ effects' = effects \cup {"subtitle_fetch"}
    /\ \E fetched \in BOOLEAN :
         run_pc' = IF fetched THEN "thumbnail" ELSE "audio_download"
    /\ UNCHANGED <<GEMINI_API_KEY, generator_instance, videoNo, run_log>>

\* _transcribe_audio_async: the executor call of _download_audio_sync returns
\* or raises.
Run_AudioDownload ==
    /\ RunFrame
    /\ run_pc = "audio_download"
    /\ effects' = effects \cup {"audio_download"}
    /\ \E downloaded \in BOOLEAN :
         IF downloaded THEN run_pc' = "transcription" /\ UNCHANGED run_log
         ELSE Returns("failed", "TranscriptError", effects')
    /\ UNCHANGED <<GEMINI_API_KEY, generator_instance, videoNo>>

\* _transcribe_with_gemini_sync: raises without the credential, else calls
\* the model, which returns text or raises.
Run_Transcribe ==
    /\ RunFrame
    /\ run_pc = "transcription"
    /\ IF ~GEMINI_API_KEY
       THEN /\ UNCHANGED effects
            /\ Returns("failed", "configuration", effects)
       ELSE /\ effects' = effects \cup {"transcription"}
            /\ \E transcribed \in BOOLEAN :
                 IF transcribed THEN run_pc' = "thumbnail" /\ UNCHANGED run_log
                 ELSE Returns("failed", "TranscriptError", effects')
    /\ UNCHANGED <<GEMINI_API_KEY, generator_instance, videoNo>>

\* download_youtube_thumbnail: requests.get(..., timeout=10) returns or times
\* out; both end in a title and a path; the language detection that follows
\* calls nothing external.
Run_Thumbnail ==
    /\ RunFrame
    /\ run_pc = "thumbnail"
    /\ effects' = effects \cup {"thumbnail_download"}
    /\ run_pc' = "construct"
    /\ UNCHANGED <<GEMINI_API_KEY, generator_instance, videoNo, run_log>>

\* generate_post_async of the module: the generator is constructed on the
\* first call that reaches this line; AIGenerator() raises without the
\* credential and the global stays None.
Run_Construct ==
    /\ RunFrame
    /\ run_pc = "construct"
    /\ IF generator_instance = "None" /\ ~GEMINI_API_KEY
       THEN /\ Returns("failed", "configuration", effects)
            /\ UNCHANGED generator_instance
       ELSE /\ generator_instance' = "AIGenerator"
            /\ run_pc' = "ai"
            /\ UNCHANGED run_log
    /\ UNCHANGED <<GEMINI_API_KEY, videoNo, effects>>

\* AIGenerator.generate_post_async: the executor calls of _call_gemini have
\* returned or raised.
Run_Generate ==
    /\ RunFrame
    /\ run_pc = "ai"
    /\ effects' = effects \cup {"ai_call"}
    /\ \E generated \in BOOLEAN :
         IF generated THEN run_pc' = "save" /\ UNCHANGED run_log
         ELSE Returns("failed", "AIGenerationError", effects')
    /\ UNCHANGED <<GEMINI_API_KEY, generator_instance, videoNo>>

\* save_markdown_post returns or raises.
Run_Save ==
    /\ RunFrame
    /\ run_pc = "save"
    /\ \E saved \in BOOLEAN :
         IF saved THEN Returns("created", "none", effects)
         ELSE Returns("failed", "OSError", effects)
    /\ UNCHANGED <<GEMINI_API_KEY, generator_instance, videoNo, effects>>

InitRun ==
    /\ GEMINI_API_KEY \in BOOLEAN
    /\ generator_instance = "None"
    /\ videoNo = 0
    /\ run_pc = "new"
    /\ effects = {}
    /\ run_log = <<>>

RunIdle ==
    /\ GEMINI_API_KEY = TRUE
    /\ generator_instance = "None"
    /\ videoNo = 0
    /\ run_pc = "new"
    /\ effects = {}
    /\ run_log = <<>>

NextRun ==
    \/ Run_Begin
    \/ Run_Subtitles
    \/ Run_AudioDownload
    \/ Run_Transcribe
    \/ Run_Thumbnail
    \/ Run_Construct
    \/ Run_Generate
    \/ Run_Save

\* What the code's scheduling guarantees: the event loop runs the
\* synchronous steps of a coroutine that is ready, the write to the local
\* content directory ends, and the thumbnail request ends within its
\* timeout. No other external call carries a timeout, so none of them is
\* certain to return.
RunFairness ==
    /\ WF_vars(Run_Construct)
    /\ WF_vars(Run_Thumbnail)
    /\ WF_vars(Run_Save)

\* ------------------------------------------------------------------------
\* Language detection
\* ------------------------------------------------------------------------
\* Longest run of one script, of spaces and of newlines in a modelled text
MaxScriptRun == 2
\* Longest run of ASCII letters in a modelled text
MaxAsciiRun == 20
\* len(text.strip()) < 10 in detect_language
MinDetectLen == 10
\* The ratio 0.1 of the fallbacks, as 1 / RatioDenominator
RatioDenominator == 10

\* Code points standing for the ranges the patterns name:
\* [一-鿿], [가-힯] and [぀-ゟ゠-ヿ]
Ideographs == {"U+4E2D"}
Hangul == {"U+D55C"}
Kana == {"U+304B"}

\* len(re.findall('[class]', text))
CountIn(text, class) == Cardinality({ i \in 1..Len(text) : text[i] \in class })

\* count / total > 0.1
ExceedsRatio(count, total) == RatioDenominator * count > total

\* _detect_language_fallback of youtube/transcript.py
detect_language_fallback(t) ==
    LET chinese_chars == CountIn(t, Ideographs)
        korean_chars == CountIn(t, Hangul)
        japanese_chars == CountIn(t, Kana \cup Ideographs)
        total_chars == Len(Remove(t, {" "}))
    IN  IF total_chars = 0 THEN "en"
        ELSE IF ExceedsRatio(chinese_chars, total_chars) THEN "zh-cn"
        ELSE IF ExceedsRatio(korean_chars, total_chars) THEN "ko"
        ELSE IF ExceedsRatio(japanese_chars, total_chars) THEN "ja"
        ELSE "en"

\* LanguageDetector._heuristic_language_detection
heuristic_language_detection(t) ==
    IF t = <<>> THEN "en"
    ELSE IF ExceedsRatio(CountIn(t, Ideographs), Len(t)) THEN "zh-cn"
    ELSE "en"

\* LanguageDetector._normalize_language_code
normalize_language_code(code) ==
    IF code \in {"zh", "zh-cn", "zh-tw", "zh-hans", "zh-hant"} THEN "zh-cn" ELSE code

\* language_map.get(detected, detected) of _detect_language_sync
language_map(code) == IF code = "zh" THEN "zh-cn" ELSE code

LangReturned(code) == [raised |-> FALSE, code |-> code]
LangRaised == [raised |-> TRUE, code |-> "none"]

\* LanguageDetector.detect_language. The modelled texts hold no timestamps,
\* URLs or brackets, so _clean_text_for_detection only strips them. Only
\* LangDetectError is caught.
detect_language(t, p) ==
    IF t = <<>> \/ Len(StripSet(t, WS)) < MinDetectLen THEN LangReturned("en")
    ELSE IF p.kind = "code" THEN LangReturned(normalize_language_code(p.code))
    ELSE IF p.kind = "Exception" THEN LangRaised
    ELSE LangReturned(heuristic_language_detection(StripSet(t, WS)))

\* detect_transcript_language with _detect_language_sync: LangDetectError
\* gives 'en' there, every other exception leads to the fallback.
detect_transcript_language(t, p) ==
    IF p.kind = "unavailable" THEN LangReturned(detect_language_fallback(t))
    ELSE IF p.kind = "code" THEN LangReturned(language_map(p.code))
    ELSE IF p.kind = "LangDetectError" THEN LangReturned("en")
    ELSE LangReturned(detect_language_fallback(t))

\* The fallback of a detector, which never consults langdetect
Fallback(d, t) ==
    IF d = "LanguageDetector" THEN heuristic_language_detection(t)
    ELSE detect_language_fallback(t)

\* --- the inputs ---
LangDetectors == {"LanguageDetector", "detect_transcript_language"}

\* Texts: runs of ideographs, Hangul, Kana, spaces and newlines, then ASCII
LangTexts ==
    { Rep("U+4E2D", c) \o Rep("U+D55C", h) \o Rep("U+304B", k)
        \o Rep(" ", s) \o Rep("\n", n) \o Rep("a", a) :
        c \in 0..MaxScriptRun, h \in 0..MaxScriptRun, k \in 0..MaxScriptRun,
        s \in 0..MaxScriptRun, n \in 0..MaxScriptRun, a \in 0..MaxAsciiRun }

\* langdetect is not installed, returns a code, raises LangDetectError or
\* raises something else.
PrimaryBehaviours ==
    { [kind |-> "unavailable", code |-> "none"],
      [kind |-> "LangDetectError", code |-> "none"],
      [kind |-> "Exception", code |-> "none"] }
    \cup { [kind |-> "code", code |-> c] : c \in {"en", "zh", "zh-tw", "ko"} }

LanguageCodes == {"en", "zh-cn", "zh-tw", "ko", "ja"}

NotDetected == [raised |-> FALSE, code |-> "none"]

\* The entry point is called.
Lang_Detect ==
    /\ LangFrame
    /\ lang_pc = "new"
    /\ detected' = IF langDetector = "LanguageDetector"
                   THEN detect_language(langText, primary)
                   ELSE detect_transcript_language(langText, primary)
    /\ lang_pc' = "detected"
    /\ UNCHANGED <<langDetector, langText, primary>>

\* The fallback is called, as it is whenever langdetect is not installed.
Lang_Fallback ==
    /\ LangFrame
    /\ lang_pc = "new"
    /\ primary.kind = "unavailable"
    /\ detected' = LangReturned(Fallback(langDetector, langText))
    /\ lang_pc' = "fallback"
    /\ UNCHANGED <<langDetector, langText, primary>>

\* langdetect finds no features in a text without letters and raises its
\* detection error for it; it returns a code only for other texts.
InitLang ==
    /\ langDetector \in LangDetectors
    /\ langText \in LangTexts
    /\ primary \in PrimaryBehaviours
    /\ primary.kind = "code" => StripSet(langText, WS) # <<>>
    /\ lang_pc = "new"
    /\ detected = NotDetected

LangIdle ==
    /\ langDetector = "LanguageDetector"
    /\ langText = <<>>
    /\ primary = [kind |-> "unavailable", code |-> "none"]
    /\ lang_pc = "new"
    /\ detected = NotDetected

NextLang ==
    \/ Lang_Detect
    \/ Lang_Fallback

\* ------------------------------------------------------------------------
\* The duplicate check: PelicanIntegrator.check_existing_post
\* ------------------------------------------------------------------------
\* Most documents in the directory
MaxFiles == 2

\* No youtube_id
NoId == <<>>

\* The ids of the directory's documents: two video ids, and a front-matter
\* value that goes on after the first one.
IdA == Rep("a", VideoIdLen)
IdB == Rep("b", VideoIdLen)
IdLong == IdA \o <<"x">>

\* The documents of the directory: the youtube_id field of the front matter
\* (NoId for a post without one), the id a line of the body quotes (NoId if
\* none), and whether open/read succeed for the file.
MdDocuments ==
    [youtube_id : {NoId, IdA, IdB, IdLong}, quoted : {NoId, IdA}, readable : BOOLEAN]

\* The line 'youtube_id: <id>'
IdLine(id) == Spell("youtube_id: ") \o id

\* The text of a document: front matter between '---' lines, then the body.
MdText(d) ==
    Spell("---") \o NL
    \o Spell("title: ") \o <<"t">> \o NL
    \o (IF d.youtube_id = NoId THEN <<>> ELSE IdLine(d.youtube_id) \o NL)
    \o Spell("---") \o NL \o NL
    \o <<"B">> \o NL
    \o (IF d.quoted = NoId THEN <<>> ELSE IdLine(d.quoted) \o NL)

\* f"youtube_id: {youtube_id}" in content
MentionsId(content, id) == Contains(content, IdLine(id))

\* The loop over the files from position i on: the first readable file whose
\* text holds the line is returned; a file that cannot be read is skipped.
RECURSIVE ScanFrom(_, _, _)
ScanFrom(files, id, i) ==
    IF i > Len(files) THEN 0
    ELSE IF files[i].readable /\ MentionsId(MdText(files[i]), id) THEN i
    ELSE ScanFrom(files, id, i + 1)

check_existing_post(files, id) == ScanFrom(files, id, 1)

\* check_existing_post(youtube_id) runs.
Dup_Check ==
    /\ DupFrame
    /\ dup_pc = "new"
    /\ existing_post' = check_existing_post(md_files, wanted_id)
    /\ dup_pc' = "checked"
    /\ UNCHANGED <<md_files, wanted_id>>

InitDup ==
    /\ md_files \in UNION { [1..n -> MdDocuments] : n \in 0..MaxFiles }
    /\ wanted_id \in {IdA, IdB}
    /\ dup_pc = "new"
    /\ existing_post = 0

DupIdle ==
    /\ md_files = <<>>
    /\ wanted_id = IdA
    /\ dup_pc = "new"
    /\ existing_post = 0

NextDup == Dup_Check

\* ------------------------------------------------------------------------
\* Subtitle track selection: _get_transcript_sync, _try_official_subtitles
\* ------------------------------------------------------------------------
\* Most tracks of one video
MaxTracks == 2

\* Language codes
EN == <<"e", "n">>
EN_US == <<"e", "n", "-", "U", "S">>
PT == <<"p", "t">>
JA == <<"j", "a">>

\* The codes _try_official_subtitles passes to the library, in its order.
PreferredLanguages ==
    << EN, <<"z", "h", "-", "c", "n">>, <<"z", "h", "-", "t", "w">>, JA,
       <<"k", "o">>, <<"e", "s">>, <<"f", "r">>, <<"d", "e">> >>

\* The tracks a video can have.
Tracks == [language_code : {EN, EN_US, PT, JA}, is_generated : BOOLEAN]

\* The track lists of the library: no track twice, and the manually created
\* tracks listed before the generated ones.
TrackLists ==
    { l \in UNION { [1..n -> Tracks] : n \in 0..MaxTracks } :
        \A i, j \in DOMAIN l :
            i < j => /\ l[i] # l[j]
                     /\ ~(l[i].is_generated /\ ~l[j].is_generated) }

\* Outcomes of a selection without a track
OtherError == [track |-> 0, raised |-> "TypeError"]
NoTrack == [track |-> 0, raised |-> "none"]
Fetched(i) == [track |-> i, raised |-> "none"]

\* The first position of a set of positions, 0 if there is none
FirstOf(positions) == IF positions = {} THEN 0 ELSE Min(positions)

\* The track the library holds for a code among the manually created
\* (generated = FALSE) or the generated ones, 0 if none
TrackFor(list, code, generated) ==
    FirstOf({ i \in DOMAIN list : /\ list[i].language_code = code
                                  /\ list[i].is_generated = generated })

\* transcript_list.find_transcript(codes): for each code in order, the
\* manually created track of that code, else the generated one.
RECURSIVE find_transcript(_, _)
find_transcript(list, codes) ==
    IF codes = <<>> THEN 0
    ELSE IF TrackFor(list, Head(codes), FALSE) # 0
    THEN TrackFor(list, Head(codes), FALSE)
    ELSE IF TrackFor(list, Head(codes), TRUE) # 0
    THEN TrackFor(list, Head(codes), TRUE)
    ELSE find_transcript(list, Tail(codes))

\* transcript_list.find_manually_created_transcript(codes)
RECURSIVE find_manually_created_transcript(_, _)
find_manually_created_transcript(list, codes) ==
    IF codes = <<>> THEN 0
    ELSE IF TrackFor(list, Head(codes), FALSE) # 0
    THEN TrackFor(list, Head(codes), FALSE)
    ELSE find_manually_created_transcript(list, Tail(codes))

\* _get_transcript_sync: the track of the requested language; without one,
\* find_manually_created_transcript is called without its language codes,
\* which is a TypeError that no except clause of the function catches.
get_transcript_sync(list, lang) ==
    IF find_transcript(list, <<lang>>) # 0
    THEN Fetched(find_transcript(list, <<lang>>))
    ELSE OtherError

\* _fetch_transcript of _try_official_subtitles: a track of the preferred
\* codes, else a manually created one of those codes, else the first track,
\* else None.
fetch_transcript(list) ==
    IF find_transcript(list, PreferredLanguages) # 0
    THEN Fetched(find_transcript(list, PreferredLanguages))
    ELSE IF find_manually_created_transcript(list, PreferredLanguages) # 0
    THEN Fetched(find_manually_created_transcript(list, PreferredLanguages))
    ELSE IF list # <<>> THEN Fetched(1)
    ELSE NoTrack

\* The selection runs.
Trk_Select ==
    /\ TrkFrame
    /\ trk_pc = "new"
    /\ selection' = IF selector = "_get_transcript_sync"
                    THEN get_transcript_sync(transcript_list, language)
                    ELSE fetch_transcript(transcript_list)
    /\ trk_pc' = "selected"
    /\ UNCHANGED <<selector, transcript_list, language>>

\* _try_official_subtitles takes no language: the one asked for is the first
\* of its codes.
InitTrk ==
    /\ selector \in {"_get_transcript_sync", "_try_official_subtitles"}
    /\ transcript_list \in TrackLists
    /\ language \in {EN, JA, PT}
    /\ selector = "_try_official_subtitles" => language = Head(PreferredLanguages)
    /\ trk_pc = "new"
    /\ selection = NoTrack

TrkIdle ==
    /\ selector = "_get_transcript_sync"
    /\ transcript_list = <<>>
    /\ language = EN
    /\ trk_pc = "new"
    /\ selection = NoTrack

NextTrk == Trk_Select

\* ------------------------------------------------------------------------
\* Titles: the title's length, the fallback and where the title comes from
\* ------------------------------------------------------------------------
\* title.rfind(' '), 0-based, -1 if there is no blank
RFindSpace(title) ==
    IF \E i \in 1..Len(title) : title[i] = " "
    THEN (CHOOSE i \in 1..Len(title) :
            title[i] = " " /\ \A j \in (i + 1)..Len(title) : title[j] # " ") - 1
    ELSE -1

\* _optimize_title_length
optimize_title_length(title) ==
    IF Len(title) <= TitleMax THEN title
    ELSE IF RFindSpace(Take(title, TitleCut)) > LastSpaceMin
    THEN Take(title, RFindSpace(Take(title, TitleCut)))
    ELSE Take(title, TitleCut)

\* The stripped sentences of the transcript that are tried
Sentences(text) ==
    LET parts == SplitOn(text, ".")
    IN  [i \in 1..(IF Len(parts) < SentencesTried THEN Len(parts) ELSE SentencesTried)
           |-> Strip(parts[i])]

\* The first sentence of fitting length, 0 if there is none
FittingSentence(text) ==
    LET fit == { i \in DOMAIN Sentences(text) :
                   /\ Len(Sentences(text)[i]) > SentenceMin
                   /\ Len(Sentences(text)[i]) < SentenceMax }
    IN  IF fit = {} THEN 0 ELSE Min(fit)

GuideTo == <<"G", "u", "i", "d", "e", " ", "t", "o", " ">>
EssentialGuide == <<"E", "s", "s", "e", "n", "t", "i", "a", "l", " ", "V", "i", "d", "e", "o", " ", "C", "o", "n", "t", "e", "n", "t", " ", "G", "u", "i", "d", "e">>

\* _generate_fallback_title
generate_fallback_title(g, text, topics) ==
    IF FittingSentence(text) # 0
    THEN clean_title(g, optimize_title_length(
             Take(Sentences(text)[FittingSentence(text)], SentenceCut)))
    ELSE IF topics # <<>> THEN GuideTo \o Take(topics, TopicsCut)
    ELSE EssentialGuide

\* The text the fallback title was made from
FallbackSource(g, text, topics) ==
    IF FittingSentence(text) # 0
    THEN clean_title(g, Sentences(text)[FittingSentence(text)])
    ELSE IF topics # <<>> THEN GuideTo \o topics
    ELSE EssentialGuide

\* The model's answer cannot be had: _call_gemini raises.
AIRaises == <<"raises">>

NoTitle == [title |-> <<>>, source |-> "none", full |-> <<>>, ai_called |-> FALSE]

\* Whether the generator takes the title from outside: AIGenerator takes the
\* platform's title if there is one and the custom title otherwise;
\* ContentGenerator looks at the custom title only.
UsesExternal(g, custom, youtube) ==
    IF g = "AIGenerator" THEN youtube # <<>> \/ custom # <<>> ELSE custom # <<>>

ExternalTitleOf(g, custom, youtube) ==
    IF g = "AIGenerator" /\ youtube # <<>>
    THEN [title |-> Strip(youtube), source |-> "youtube_title", full |-> youtube,
          ai_called |-> FALSE]
    ELSE [title |-> clean_title(g, custom), source |-> "custom_title",
          full |-> custom, ai_called |-> FALSE]

\* The title is taken from outside.
Ttl_External ==
    /\ TtlFrame
    /\ ttl_pc = "new"
    /\ UsesExternal(titleGen, custom_title, youtube_title)
    /\ post_title' = ExternalTitleOf(titleGen, custom_title, youtube_title)
    /\ ttl_pc' = "done"
    /\ UNCHANGED <<titleGen, custom_title, youtube_title, ai_title, title_transcript,
                   key_topics>>

\* The key topics are asked for, then the title: the answer is cleaned and
\* cut to length.
Ttl_AI ==
    /\ TtlFrame
    /\ ttl_pc = "new"
    /\ ~UsesExternal(titleGen, custom_title, youtube_title)
    /\ ai_title # AIRaises
    /\ post_title' = [title |-> optimize_title_length(clean_title(titleGen, ai_title)),
                      source |-> "ai", full |-> clean_title(titleGen, ai_title),
                      ai_called |-> TRUE]
    /\ ttl_pc' = "done"
    /\ UNCHANGED <<titleGen, custom_title, youtube_title, ai_title, title_transcript,
                   key_topics>>

\* The call for the title raises: the except branch makes the fallback title.
Ttl_Fallback ==
    /\ TtlFrame
    /\ ttl_pc = "new"
    /\ ~UsesExternal(titleGen, custom_title, youtube_title)
    /\ ai_title = AIRaises
    /\ post_title' = [title |-> generate_fallback_title(titleGen, title_transcript,
                                                        key_topics),
                      source |-> "fallback",
                      full |-> FallbackSource(titleGen, title_transcript, key_topics),
                      ai_called |-> TRUE]
    /\ ttl_pc' = "done"
    /\ UNCHANGED <<titleGen, custom_title, youtube_title, ai_title, title_transcript,
                   key_topics>>

\* Titles that come from outside
ExternalTitles ==
    { <<"i", "P", "h", "o", "n", "e", " ", "t", "i", "p", "s">>,
      <<" ", " ", "T", "i", "p", "s", " ", "f", "o", "r", " ", "t", "h", "e", " ", "d", "a", "y", " ">>,
      <<"S", "p", "a", "r", "e", " ", "p", "a", "r", "t", "s">>,
      <<"O", "p", "t", "i", "o", "n", " ", "1", ":", " ", "N", "A", "S", "A">> }

\* k words of WordLen letters and a last word of n letters
WordyText(k, n) ==
    Join(<<" ">>, [i \in 1..k |-> Rep("a", WordLen)] \o << Rep("a", n) >>)

\* Texts of up to MaxWords words and a last word that is short, long, or
\* longer than a whole title
WordyTexts == { WordyText(k, n) : k \in 0..MaxWords, n \in {WordLen, 30, 70} }

InitTtl ==
    /\ titleGen \in {"AIGenerator", "ContentGenerator"}
    /\ custom_title \in ExternalTitles \cup {<<>>}
    /\ youtube_title \in ExternalTitles \cup {<<>>}
    /\ ai_title \in WordyTexts \cup {AIRaises}
    /\ title_transcript \in { t \o <<".">> \o Rep("b", 3) : t \in WordyTexts }
    /\ key_topics \in {<<>>, WordyText(2, 30)}
    /\ (custom_title # <<>> \/ youtube_title # <<>>) =>
           ai_title = WordyText(0, WordLen)
    /\ ai_title # AIRaises =>
           title_transcript = WordyText(0, WordLen) \o <<".">> \o Rep("b", 3)
                /\ key_topics = <<>>
    /\ ttl_pc = "new"
    /\ post_title = NoTitle

TtlIdle ==
    /\ titleGen = "AIGenerator"
    /\ custom_title = <<>>
    /\ youtube_title = <<>>
    /\ ai_title = AIRaises
    /\ title_transcript = <<>>
    /\ key_topics = <<>>
    /\ ttl_pc = "new"
    /\ post_title = NoTitle

NextTtl ==
    \/ Ttl_External
    \/ Ttl_AI
    \/ Ttl_Fallback

\* ------------------------------------------------------------------------
\* The content manager: scripts/content_manager.py
\* ------------------------------------------------------------------------
\* Most files in the content directory, and most commands in a row
MaxCmFiles == 2
MaxCmRuns == 2

\* datetime.now() in the runs of the model, a day after the dates of the posts
CmToday == 2

\* File names: '<date>-<stem>.md' for a date, '<stem>.md' for date 0.
CmStems == << <<"a">>, <<"b">> >>
CmNames == [date : {0, 1}, stem : {CmStems[1], CmStems[2]}]

\* File contents: the value of the front matter's title line (<<>> if there
\* is none or it is empty), whether it is wrapped in double quotes, and the
\* day of the date line (0 if there is none).
CmContents == [title : {<<>>, <<"a">>, <<"b">>}, quoted : BOOLEAN, date : {0, 1}]

\* The directories of the model
CmDirs ==
    UNION { [names -> CmContents] :
              names \in { s \in SUBSET CmNames : Cardinality(s) <= MaxCmFiles } }

\* validate_titles: the files with a quoted_title issue.  For a line
\* title: "" the first pattern matches and the second finds nothing: the
\* AttributeError makes an issue of type 'error', which fix_titles leaves out.
QuotedTitleIssues(dir) ==
    { n \in DOMAIN dir : dir[n].quoted /\ dir[n].title # <<>> }

\* content.replace(issue['current'], issue['fixed'], 1) written back: the
\* title line loses its quotes.
FixedContent(c) == [c EXCEPT !.quoted = FALSE]

\* fix_titles: every file with an issue is rewritten, unless dry_run.
FixTitles(dir, dry_run) ==
    IF dry_run THEN dir
    ELSE [n \in DOMAIN dir |->
            IF n \in QuotedTitleIssues(dir) THEN FixedContent(dir[n]) ELSE dir[n]]

\* fixed_count, which only the writes count
TitlesFixed(dir, dry_run) ==
    IF dry_run THEN 0 ELSE Cardinality(QuotedTitleIssues(dir))

\* get_files_to_rename: the name a file should have.  A file named with a
\* date is skipped; the date comes from the front matter or from now(), the
\* title from the front matter or from the file's name.
NewName(dir, n) ==
    IF n.date # 0 THEN n
    ELSE [date |-> IF dir[n].date # 0 THEN dir[n].date ELSE CmToday,
          stem |-> generate_slug(IF dir[n].title # <<>> THEN dir[n].title
                                 ELSE n.stem)]

\* The files to rename, sorted by their current name
FilesToRename(dir) ==
    SelectSeq([i \in 1..Len(CmStems) |-> [date |-> 0, stem |-> CmStems[i]]],
              LAMBDA n : n \in DOMAIN dir /\ NewName(dir, n) # n)

\* Path.rename: the file gets the new name and replaces a file of that name.
RenameFile(dir, old, new) ==
    [n \in (DOMAIN dir \ {old}) \cup {new} |-> IF n = new THEN dir[old] ELSE dir[n]]

\* The loop of rename_files over the list made before the first rename
RECURSIVE RenameEach(_, _, _)
RenameEach(dir, todo, new) ==
    IF todo = <<>> THEN dir
    ELSE RenameEach(RenameFile(dir, Head(todo), new[Head(todo)]), Tail(todo), new)

\* A rename_files that renames also in a dry run
RenameFilesAlways(dir, dry_run) ==
    RenameEach(dir, FilesToRename(dir),
               [n \in DOMAIN dir |-> NewName(dir, n)])

\* rename_files
RenameFiles(dir, dry_run) ==
    IF dry_run THEN dir
    ELSE RenameEach(dir, FilesToRename(dir),
                    [n \in DOMAIN dir |-> NewName(dir, n)])

\* The backups: for each name whether the directory exists, and its files
NoBackup == [exists |-> FALSE, files |-> <<>>]
BackupNames == {"pre_consolidation_backup", "manual_backup"}

\* create_backup: mkdir(exist_ok=True), then every markdown file is copied
\* over what the backup holds.
CreateBackup(backups, name, dir) ==
    [backups EXCEPT ![name] =
        [exists |-> TRUE,
         files |-> [n \in DOMAIN backups[name].files \cup DOMAIN dir |->
                      IF n \in DOMAIN dir THEN dir[n] ELSE backups[name].files[n]]]]

NoResult == [titles_fixed |-> 0, files_renamed |-> 0, backup_created |-> FALSE]

\* A command has run.
CmDone(command, dry_run, result) ==
    /\ cm_command' = command
    /\ cm_dry_run' = dry_run
    /\ cm_result' = result
    /\ cm_run' = cm_run + 1

\* content_manager.py fix-titles [--dry-run]
Cm_FixTitles ==
    /\ CmFrame
    /\ cm_run <= MaxCmRuns
    /\ \E dry_run \in BOOLEAN :
         /\ cm_dir' = FixTitles(cm_dir, dry_run)
         /\ CmDone("fix-titles", dry_run,
                   [NoResult EXCEPT !.titles_fixed = TitlesFixed(cm_dir, dry_run)])
    /\ UNCHANGED cm_backups

\* content_manager.py rename [--dry-run]
Cm_Rename ==
    /\ CmFrame
    /\ cm_run <= MaxCmRuns
    /\ \E dry_run \in BOOLEAN :
         /\ cm_dir' = RenameFiles(cm_dir, dry_run)
         /\ CmDone("rename", dry_run,
                   [NoResult EXCEPT !.files_renamed = Len(FilesToRename(cm_dir))])
    /\ UNCHANGED cm_backups

\* content_manager.py backup: main passes no dry_run on.
Cm_Backup ==
    /\ CmFrame
    /\ cm_run <= MaxCmRuns
    /\ \E dry_run \in BOOLEAN :
         /\ cm_backups' = CreateBackup(cm_backups, "manual_backup", cm_dir)
         /\ CmDone("backup", dry_run, [NoResult EXCEPT !.backup_created = TRUE])
    /\ UNCHANGED cm_dir

\* content_manager.py all [--dry-run]: run_all_operations makes the backup
\* unless dry_run, then fixes the titles, then renames the files.
Cm_All ==
    /\ CmFrame
    /\ cm_run <= MaxCmRuns
    /\ \E dry_run \in BOOLEAN :
         /\ cm_backups' = IF ~dry_run
                          THEN CreateBackup(cm_backups, "pre_consolidation_backup",
                                            cm_dir)
                          ELSE cm_backups
         /\ cm_dir' = RenameFiles(FixTitles(cm_dir, dry_run), dry_run)
         /\ CmDone("all", dry_run,
                   [titles_fixed |-> TitlesFixed(cm_dir, dry_run),
                    files_renamed |-> Len(FilesToRename(FixTitles(cm_dir, dry_run))),
                    backup_created |-> ~dry_run])

InitCm ==
    /\ cm_dir \in CmDirs
    /\ cm_backups = [b \in BackupNames |-> NoBackup]
    /\ cm_run = 1
    /\ cm_command = "none"
    /\ cm_dry_run = FALSE
    /\ cm_result = NoResult

CmIdle ==
    /\ cm_dir = <<>>
    /\ cm_backups = [b \in BackupNames |-> NoBackup]
    /\ cm_run = 1
    /\ cm_command = "none"
    /\ cm_dry_run = FALSE
    /\ cm_result = NoResult

NextCm ==
    \/ Cm_FixTitles
    \/ Cm_Rename
    \/ Cm_Backup
    \/ Cm_All

InitAcq ==
    /\ acquirer \in {"get_transcript_async", "extract_transcript"}
    /\ YOUTUBE_TRANSCRIPT_AVAILABLE \in BOOLEAN
    /\ YT_DLP_AVAILABLE \in BOOLEAN
    /\ GENAI_AVAILABLE \in BOOLEAN
    /\ run = 1
    /\ urlOk \in BOOLEAN
    /\ acq_pc = "idle"
    /\ subsOutcome = "none"
    /\ audioOutcome = "none"
    /\ audioStarted = FALSE
    /\ subsText = <<>>
    /\ audioText = <<>>
    /\ transcript = NoTranscript
    /\ temp_audio_file = NoFile
    /\ tmpdir = [n \in 1..MaxRuns |-> "absent"]

\* The acquirer is not part of the run.
AcqIdle ==
    /\ acquirer = "get_transcript_async"
    /\ YOUTUBE_TRANSCRIPT_AVAILABLE = TRUE
    /\ YT_DLP_AVAILABLE = TRUE
    /\ GENAI_AVAILABLE = TRUE
    /\ run = 1
    /\ urlOk = TRUE
    /\ acq_pc = "idle"
    /\ subsOutcome = "none"
    /\ audioOutcome = "none"
    /\ audioStarted = FALSE
    /\ subsText = <<>>
    /\ audioText = <<>>
    /\ transcript = NoTranscript
    /\ temp_audio_file = NoFile
    /\ tmpdir = [n \in 1..MaxRuns |-> "absent"]

NextAcq ==
    \/ GTA_Start
    \/ GTA_SubtitlesFetched
    \/ GTA_SubtitlesRaised
    \/ TAA_DownloadDone
    \/ TAA_TranscribeReturned
    \/ TAA_TranscribeRaised
    \/ ET_Start
    \/ ET_SubtitlesFetched
    \/ ET_SubtitlesRaised
    \/ NextCall

\* The acquirer alone.
AcqInit == InitAcq /\ GenIdle /\ SlugIdle /\ PubIdle /\ DocIdle /\ UrlIdle /\
    BatchIdle /\ RunIdle /\ LangIdle /\ DupIdle /\ TrkIdle /\ TtlIdle /\ CmIdle

SpecAcq == AcqInit /\ [][NextAcq]_vars

\* The generator alone.
GenInit == InitGen /\ AcqIdle /\ SlugIdle /\ PubIdle /\ DocIdle /\ UrlIdle /\
    BatchIdle /\ RunIdle /\ LangIdle /\ DupIdle /\ TrkIdle /\ TtlIdle /\ CmIdle

SpecGen == GenInit /\ [][NextGen]_vars

\* Slug derivation alone.
SlugInit == InitSlug /\ AcqIdle /\ GenIdle /\ PubIdle /\ DocIdle /\ UrlIdle /\
    BatchIdle /\ RunIdle /\ LangIdle /\ DupIdle /\ TrkIdle /\ TtlIdle /\ CmIdle

SpecSlug == SlugInit /\ [][NextSlug]_vars

\* Publication alone.
PubInit == InitPub /\ AcqIdle /\ GenIdle /\ SlugIdle /\ DocIdle /\ UrlIdle /\
    BatchIdle /\ RunIdle /\ LangIdle /\ DupIdle /\ TrkIdle /\ TtlIdle /\ CmIdle

SpecPub == PubInit /\ [][NextPub]_vars

\* Documents alone.
DocInit == InitDoc /\ AcqIdle /\ GenIdle /\ SlugIdle /\ PubIdle /\ UrlIdle /\
    BatchIdle /\ RunIdle /\ LangIdle /\ DupIdle /\ TrkIdle /\ TtlIdle /\ CmIdle

SpecDoc == DocInit /\ [][NextDoc]_vars

\* The video reference alone.
UrlInit == InitUrl /\ AcqIdle /\ GenIdle /\ SlugIdle /\ PubIdle /\ DocIdle /\
    BatchIdle /\ RunIdle /\ LangIdle /\ DupIdle /\ TrkIdle /\ TtlIdle /\ CmIdle

SpecUrl == UrlInit /\ [][NextUrl]_vars

\* Batch processing alone.
BatchInit == InitBatch /\ AcqIdle /\ GenIdle /\ SlugIdle /\ PubIdle /\ DocIdle /\
    UrlIdle /\ RunIdle /\ LangIdle /\ DupIdle /\ TrkIdle /\ TtlIdle /\ CmIdle

SpecBatch == BatchInit /\ [][NextBatch]_vars

\* The single-video pipeline alone.
RunInit == InitRun /\ AcqIdle /\ GenIdle /\ SlugIdle /\ PubIdle /\ DocIdle /\
    UrlIdle /\ BatchIdle /\ LangIdle /\ DupIdle /\ TrkIdle /\ TtlIdle /\ CmIdle

SpecRun == RunInit /\ [][NextRun]_vars

\* Language detection alone.
LangInit == InitLang /\ AcqIdle /\ GenIdle /\ SlugIdle /\ PubIdle /\ DocIdle /\
    UrlIdle /\ BatchIdle /\ RunIdle /\ DupIdle /\ TrkIdle /\ TtlIdle /\ CmIdle

SpecLang == LangInit /\ [][NextLang]_vars

\* The duplicate check alone
DupInit == InitDup /\ AcqIdle /\ GenIdle /\ SlugIdle /\ PubIdle /\ DocIdle /\
    UrlIdle /\ BatchIdle /\ RunIdle /\ LangIdle /\ TrkIdle /\ TtlIdle /\ CmIdle

SpecDup == DupInit /\ [][NextDup]_vars

\* Track selection alone
TrkInit == InitTrk /\ AcqIdle /\ GenIdle /\ SlugIdle /\ PubIdle /\ DocIdle /\
    UrlIdle /\ BatchIdle /\ RunIdle /\ LangIdle /\ DupIdle /\ TtlIdle /\ CmIdle

SpecTrk == TrkInit /\ [][NextTrk]_vars

\* Title generation alone
TtlInit == InitTtl /\ AcqIdle /\ GenIdle /\ SlugIdle /\ PubIdle /\ DocIdle /\
    UrlIdle /\ BatchIdle /\ RunIdle /\ LangIdle /\ DupIdle /\ TrkIdle /\ CmIdle

SpecTtl == TtlInit /\ [][NextTtl]_vars

\* The content manager alone
CmInit == InitCm /\ AcqIdle /\ GenIdle /\ SlugIdle /\ PubIdle /\ DocIdle /\ UrlIdle /\
    BatchIdle /\ RunIdle /\ LangIdle /\ DupIdle /\ TrkIdle /\ TtlIdle

SpecCm == CmInit /\ [][NextCm]_vars

\* The same with the steps the scheduling guarantees.
SpecRunLive == RunInit /\ [][NextRun]_vars /\ RunFairness

\* ------------------------------------------------------------------------
\* Claims about the transcript acquirer
\* ------------------------------------------------------------------------

\* C1: when the subtitle stage ends with transcripts-disabled or no-transcript-
\* found, the call goes on to the audio stage; it raises only when the audio
\* stage is unavailable or failed, and when the audio stage succeeded its text
\* is the value returned.
C1_FallbackToAudio ==
    subsOutcome \in {"disabled", "notfound"} =>
        /\ acq_pc \in {"download", "transcribe", "returned", "raised"}
        /\ (acq_pc = "raised" => audioOutcome \in {"unavailable", "failed"})
        /\ (acq_pc = "returned" =>
               /\ audioOutcome = "ok"
               /\ transcript = [text |-> audioText, source |-> "AUDIO"])
        /\ (audioOutcome = "ok" => acq_pc = "returned")

C1_Witness ==
    /\ acquirer = "get_transcript_async"
    /\ subsOutcome = "disabled"
    /\ audioOutcome = "ok"
    /\ acq_pc = "returned"
    /\ transcript.source = "AUDIO"

C4_GenerateNeverFails ==
    /\ gen_pc # "raised"
    /\ gen_pc = "returned" =>
         /\ post.keys = PostKeys(generator)
         /\ \A f \in Fields :
              post.origin[f] =
                 IF Given(generator, opt, f) THEN "given"
                 ELSE IF aiOutcome[f] = "ok" THEN "ai" ELSE "fallback"

\* C5: all four sub-generations are dispatched before any of them is awaited
\* (none is still to be created while the call waits or after another one has
\* completed an AI call), and the post is assembled only when all four are done.
C5_DispatchedTogether ==
    /\ gen_pc \in {"await_title", "gather"} => \A f \in Fields : task[f] # "new"
    /\ gen_pc = "returned" => \A f \in Fields : task[f] = "done"

\* ------------------------------------------------------------------------
\* Claims about slug derivation
\* ------------------------------------------------------------------------

\* C9: every derived slug ends with a hyphen and the first 8 characters of
\* its video's id, and two videos with the same title whose ids differ in
\* their first 8 characters have different slugs.
C9_IdSuffixKeepsSlugsApart ==
    /\ \A i \in derived :
         LET suffix == <<"-">> \o Take(video_ids[i], IdPrefixLen)
             s == post_slug[i]
         IN  /\ Len(s) >= Len(suffix)
             /\ SubSeq(s, Len(s) - Len(suffix) + 1, Len(s)) = suffix
    /\ (/\ derived = {1, 2}
        /\ Take(video_ids[1], IdPrefixLen) # Take(video_ids[2], IdPrefixLen))
          => post_slug[1] # post_slug[2]

\* C10: every derived slug is lower-case, is made of non-empty alphanumeric
\* runs separated by single hyphens with no hyphen at either end, is at most
\* 100 + 1 + 8 characters long, starts with the literal untitled when the
\* title is empty, and is the same for the same title and video id.
C10_SlugShape ==
    /\ \A i \in derived :
         LET s == post_slug[i]
         IN  /\ \A k \in 1..Len(s) : s[k] \notin AsciiUpper
             /\ s # <<>>
             /\ \A k \in 1..Len(s) : s[k] \in AsciiAlnum \cup {"-"}
             /\ s[1] # "-"
             /\ s[Len(s)] # "-"
             /\ \A k \in 1..(Len(s) - 1) : ~(s[k] = "-" /\ s[k + 1] = "-")
             /\ Len(s) <= SlugBodyMax + 1 + IdPrefixLen
             /\ (slugTitle = <<>> => Take(s, Len(untitled)) = untitled)
    /\ (derived = {1, 2} /\ video_ids[1] = video_ids[2])
          => post_slug[1] = post_slug[2]

\* ------------------------------------------------------------------------
\* Claims about publication
\* ------------------------------------------------------------------------

\* C6: when a run created the document of a video and the next run processes
\* the same video id, neither of them forced, the second run yields the path
\* of the first run's document, that document still has the content the first
\* run wrote, and it is the only document of that id in the directory.
C6_SameIdTwiceOneDocument ==
    (pub_pc = "idle" /\ Len(log) >= 2) =>
        LET first == log[Len(log) - 1]
            second == log[Len(log)]
        IN  (/\ first.video_id = second.video_id
             /\ first.status = "created"
             /\ ~first.force
             /\ ~second.force)
            => /\ second.path = first.path
               /\ first.path \in DOMAIN content_dir
               /\ content_dir[first.path] = first.doc
               /\ Cardinality({ f \in DOMAIN content_dir :
                       HasYoutubeId(content_dir[f], first.video_id) }) = 1

\* C7: a publish writes to {date}-{slug}.md when that name is free and
\* otherwise to {date}-{slug}-{n}.md for the smallest n >= 1 whose name is
\* free, and every file that existed before the publish still has the content
\* it had.
C7_NeverOverwrites ==
    (pub_pc = "idle" /\ log # <<>> /\ log[Len(log)].stage = "save") =>
        LET e == log[Len(log)]
        IN  /\ e.status = "created" =>
                 /\ e.path \notin DOMAIN e.before
                 /\ \E n \in 0..Len(log) :
                      /\ e.path = FileName(e.path.date, post_data.slug, n)
                      /\ \A k \in 0..(n - 1) :
                           FileName(e.path.date, post_data.slug, k) \in DOMAIN e.before
            /\ \A f \in DOMAIN e.before :
                 /\ f \in DOMAIN content_dir
                 /\ content_dir[f] = e.before[f]

\* C8: after a save whose write failed, the target path does not exist, or
\* holds what it held before the save, or holds the complete document;
\* otherwise what is left there is at least not found by the duplicate scan.
C8_WriteAllOrNothing ==
    (/\ pub_pc = "idle"
     /\ log # <<>>
     /\ log[Len(log)].stage = "save"
     /\ log[Len(log)].status = "error") =>
        LET e == log[Len(log)]
        IN  \/ e.path \notin DOMAIN content_dir
            \/ /\ e.path \in DOMAIN e.before
               /\ content_dir[e.path] = e.before[e.path]
            \/ content_dir[e.path] = e.doc
            \/ ~HasYoutubeId(content_dir[e.path], e.video_id)

\* ------------------------------------------------------------------------
\* Claims about documents
\* ------------------------------------------------------------------------

\* C11: when a written document is parsed again (the text between the first
\* two markers, each line split on its first colon), title, date, author,
\* category, tags, slug and youtube_id are found with the values the document
\* was built from, and the title read back is not wrapped in quote characters.
C11_FrontMatterRoundTrip ==
    (doc_pc = "validated" /\ validator = "validate_pelican_front_matter") =>
        /\ \A f \in FrontMatterFields :
             /\ validation.fields[f].found
             /\ validation.fields[f].value = written.values[f]
        /\ LET t == validation.fields["title"].value
           IN  ~(/\ Len(t) >= 2
                 /\ Head(t) \in {"\"", "'"}
                 /\ t[Len(t)] = Head(t))

\* C12: every written document starts with a '---' line, is followed by
\* key: value lines none of whose values is wrapped in double quotes, then by
\* a closing '---' that is a line of its own, then by exactly one blank line,
\* then by the body.
C12_DocumentShape ==
    doc_pc # "new" =>
        LET lines == SplitOn(written.text, "\n")
            marker == <<"-", "-", "-">>
            KeyValue(l) ==
                LET colons == { i \in 1..Len(l) : l[i] = ":" }
                    val == StripSet(SubSeq(l, Min(colons) + 1, Len(l)), WS)
                IN  /\ colons # {}
                    /\ Min(colons) > 1
                    /\ ~(val # <<>> /\ Head(val) = "\"" /\ val[Len(val)] = "\"")
        IN  /\ Len(lines) >= 4
            /\ lines[1] = marker
            /\ \E k \in 3..(Len(lines) - 2) :
                 /\ lines[k] = marker
                 /\ \A j \in 2..(k - 1) : lines[j] = <<>> \/ KeyValue(lines[j])
                 /\ lines[k + 1] = <<>>
                 /\ lines[k + 2] # <<>>

\* C20: a validator that reads a front matter whose title starts and ends with
\* a double quote returns a result that is not valid and that carries the
\* message about the quoted title; and a result is valid exactly when it
\* records no issue.
C20_QuotedTitleRejected ==
    doc_pc = "validated" =>
        LET t == StripSet(validation.fields["title"].value, WS)
            quoted == /\ validation.fields["title"].found
                      /\ t # <<>>
                      /\ Head(t) = "\""
                      /\ t[Len(t)] = "\""
        IN  /\ quoted =>
                 /\ ~validation.valid
                 /\ \E msg \in validation.warnings \cup validation.errors :
                      msg \in {"Title should not be wrapped in quotes",
                               "Title should not have quotes around it"}
            /\ validation.valid <=> validation.errors = {}

\* ------------------------------------------------------------------------
\* Claims about the video reference
\* ------------------------------------------------------------------------

\* C13: for every 11-character id, the watch URL, the short URL and the embed
\* URL built around it, with or without extra query parameters appended,
\* all yield exactly that id from extract_video_id.
C13_SameIdFromEveryShape ==
    (url_pc = "done" /\ urlKind \in RecognizedShapes) =>
        /\ ~extracted.raised
        /\ extracted.value = urlId

\* A short URL with parameters after the id has been read by each extractor.
C13_Witness ==
    /\ url_pc = "done"
    /\ urlKind = "short"
    /\ Contains(youtube_url, <<"?", "t", "=">>)
    /\ extractor = "myapp.main"
    /\ extracted = Returned(urlId)

\* C14: every call either returns an 11-character token of the alphabet that
\* is the id embedded in a recognized watch, short or embed URL, or raises;
\* a URL without an id, a URL of another site and a string that is no URL
\* never yield an id.
C14_IdOrInvalidReference ==
    url_pc = "done" =>
        /\ extracted.raised
           \/ /\ Len(extracted.value) = VideoIdLen
              /\ \A i \in 1..Len(extracted.value) : extracted.value[i] \in IdChars
              /\ urlKind \in RecognizedShapes
              /\ extracted.value = urlId
        /\ urlKind \notin RecognizedShapes => extracted.raised

\* ------------------------------------------------------------------------
\* Claims about batch processing
\* ------------------------------------------------------------------------

\* The video at position k fails: a step of its processing raises.
Fails(k) ==
    \/ video_urls[k].raises = "extract_video_id"
    \/ /\ video_urls[k].raises # "none"
       /\ kwargs.force_regenerate \/ ~video_urls[k].exists

\* C15: process_batch_videos processes the URLs one after another in input
\* order and returns exactly one result per input URL, in that order, for
\* every pattern of per-video failures: a video that fails or raises is
\* recorded as failed and every later URL is still processed.
C15_OneResultPerUrlInOrder ==
    /\ processed = [k \in 1..Len(processed) |-> k]
    /\ Len(results) = IF batch_pc \in {"single"} THEN Len(processed) - 1
                      ELSE Len(processed)
    /\ \A k \in 1..Len(results) :
         /\ results[k].position = k
         /\ results[k].success = ~Fails(k)
         /\ Fails(k) => results[k].status = "error"
    /\ batch_pc = "returned" =>
         /\ Len(results) = Len(video_urls)
         /\ Len(processed) = Len(video_urls)

\* A batch has returned in which the first video raised out of
\* process_single_video and a later one was created.
C15_Witness ==
    /\ batch_pc = "returned"
    /\ Len(video_urls) = MaxBatch
    /\ video_urls[1].raises = "extract_video_id"
    /\ video_urls[1].mentions_youtube
    /\ video_urls[2].raises = "extract_transcript"
    /\ results[MaxBatch].status = "created"

\* ------------------------------------------------------------------------
\* Claims about the single-video pipeline
\* ------------------------------------------------------------------------

\* C16: a missing API credential is reported when the generator is
\* constructed, before any transcript acquisition, download or AI call is
\* made for any video, and not per call: without the credential no external
\* call is ever made, and the configuration error is reported once.
C16_ConfigErrorBeforeAnyWork ==
    /\ ~GEMINI_API_KEY =>
         /\ effects = {}
         /\ \A k \in 1..Len(run_log) : run_log[k].made = {}
    /\ Cardinality({ k \in 1..Len(run_log) : run_log[k].error = "configuration" }) <= 1

\* C17: every run of the single-video pipeline eventually reaches a terminal
\* outcome, even if an external call never returns.
C17_EveryRunTerminates ==
    (run_pc \in Awaiting) ~> (run_pc = "returned")

\* ------------------------------------------------------------------------
\* Claims about language detection
\* ------------------------------------------------------------------------

\* C18: language detection never raises: for every text, the empty one
\* included, and every behaviour of langdetect (unavailable, returns a code,
\* raises a detection error, raises any other error) the entry point returns
\* a language code, and it returns 'en' for the empty text.
C18_DetectionNeverRaises ==
    lang_pc = "detected" =>
        /\ ~detected.raised
        /\ detected.code \in LanguageCodes
        /\ langText = <<>> => detected.code = "en"

\* The number of characters of a text that are no whitespace
NonWhitespace(t) == Len(Remove(t, WS))

\* C19: with langdetect unavailable the fallback returns zh-cn for every text
\* whose ideograph count is more than 10% of its non-whitespace characters,
\* 'en' for plain ASCII text, and otherwise the code of a script (Hangul ->
\* ko, Kana -> ja) only when that script's ratio exceeds 10%.
C19_FallbackRatios ==
    lang_pc = "fallback" =>
        LET total == NonWhitespace(langText)
            ascii == \A i \in 1..Len(langText) :
                         langText[i] \notin Ideographs \cup Hangul \cup Kana
        IN  /\ detected.code \in {"zh-cn", "ko", "ja", "en"}
            /\ ExceedsRatio(CountIn(langText, Ideographs), total)
                 => detected.code = "zh-cn"
            /\ ascii => detected.code = "en"
            /\ detected.code = "ko" => ExceedsRatio(CountIn(langText, Hangul), total)
            /\ detected.code = "ja" => ExceedsRatio(CountIn(langText, Kana), total)

\* ------------------------------------------------------------------------
\* Further claims about publication
\* ------------------------------------------------------------------------

\* The content directory as the k-th finished run left it
DirAfter(k) == IF k < Len(log) THEN log[k + 1].before ELSE content_dir

\* A document of the directory carries the id in a youtube_id line.
CarriesId(doc, vid) ==
    \E i \in 1..(Len(doc) - 1) : doc[i] = <<"youtube_id: ">> /\ doc[i + 1] = vid

\* C24: in process_single_video without force, when an existing document for
\* the video id is found, the call returns status 'already_exists' with that
\* document's path and ends at the check: nothing is acquired, generated or
\* written in that run; with force the check is skipped and the pipeline runs.
C24_ExistingPostShortCircuits ==
    pipeline = "spark" =>
        \A k \in 1..Len(log) :
            LET found == { f \in DOMAIN log[k].before :
                             CarriesId(log[k].before[f], log[k].video_id) }
            IN  /\ (~log[k].force /\ found # {}) =>
                     /\ log[k].status = "already_exists"
                     /\ log[k].stage = "check"
                     /\ log[k].path \in found
                     /\ DirAfter(k) = log[k].before
                /\ log[k].status = "already_exists" => ~log[k].force /\ found # {}
                /\ log[k].force => log[k].stage \in {"generate", "save"}

\* A run without force has found the post of an earlier run, and a forced run
\* for the same video has gone through to its save.
C24_Witness ==
    /\ pipeline = "spark"
    /\ Len(log) = 3
    /\ log[1].status = "created"
    /\ log[2].status = "already_exists"
    /\ log[2].path = log[1].path
    /\ log[3].force
    /\ log[3].video_id = log[1].video_id
    /\ log[3].stage = "save"

\* The number of tokens of a document equal to tok
CountTokens(doc, tok) == Cardinality({ i \in 1..Len(doc) : doc[i] = tok })

\* The number of paragraphs of a document that are the summary
SummaryParagraphs(doc) ==
    Cardinality({ i \in 2..Len(doc) : doc[i] = Summary /\ doc[i - 1] = NL })

\* C28: the file save_post writes for a post of generate_post_data holds
\* exactly one front-matter block and one copy of the summary: it is front
\* matter, summary, body, without the generator's assembled document nested
\* after a second front-matter block.
C28_OneFrontMatterBlock ==
    pipeline = "spark" =>
        \A k \in 1..Len(log) :
            log[k].status = "created" =>
                /\ CountTokens(log[k].doc, Marker) = 2
                /\ CountTokens(log[k].doc, <<"youtube_id: ">>) = 1
                /\ SummaryParagraphs(log[k].doc) = 1
                /\ CountTokens(log[k].doc, Body) = 1

\* C30: the filename recorded in the generated post, which the script reports
\* as the saved post, is the name of the file the save wrote, also when the
\* collision probing appended a '-n' suffix.
C30_ReportedNameIsWrittenName ==
    (/\ pipeline = "script"
     /\ pub_pc = "idle"
     /\ log # <<>>
     /\ log[Len(log)].status = "created"
     /\ log[Len(log)].path.date = post_data.filename.date) =>
        post_data.filename = log[Len(log)].path


\* C29: process_single_video never lets an exception out: whatever stage
\* fails and whatever the text of the error message is, the call returns a
\* dictionary with success false and status 'error'.
C29_SingleVideoNeverRaises ==
    batch_pc = "single" =>
        LET fate == video_urls[batch_i]
            out == process_single_video(fate, kwargs.force_regenerate, batch_i)
        IN  /\ ~out.raised
            /\ out.result.status \notin {"created", "already_exists"} =>
                 ~out.result.success /\ out.result.status = "error"


\* C25: the duplicate check reports a document for id X only if that
\* document's front matter has the field youtube_id equal to X; a document
\* with another id, or one that merely holds 'youtube_id: X' in its body, is
\* no match.
C25_MatchIsFrontMatterField ==
    (dup_pc = "checked" /\ existing_post # 0) =>
        md_files[existing_post].youtube_id = wanted_id


\* C27: every transcript returned as success is a non-empty string: a
\* subtitle track with no segments or only blank ones, and an empty or
\* whitespace-only transcription response, are never returned as success.
C27_ReturnedTranscriptNonEmpty ==
    acq_pc = "returned" => Strip(transcript.text) # <<>>


\* The positions of the tracks each rule of the preference order accepts
ExactTracks == { i \in DOMAIN transcript_list :
                   transcript_list[i].language_code = language }
ManualPreferredTracks ==
    { i \in DOMAIN transcript_list :
        /\ ~transcript_list[i].is_generated
        /\ \E k \in DOMAIN PreferredLanguages :
             transcript_list[i].language_code = PreferredLanguages[k] }
PrefixTracks == { i \in DOMAIN transcript_list :
                    StartsWith(transcript_list[i].language_code, Take(language, 2)) }

\* C26: the track selected is an exact match for the requested language;
\* else a manually authored track of the preferred-language set; else the
\* first track whose code starts with the first two characters of the
\* requested language; else the first track of the listing; a later rule
\* applies only when every earlier one found no track.
C26_SelectionOrder ==
    trk_pc = "selected" =>
        IF ExactTracks # {} THEN selection.track \in ExactTracks
        ELSE IF ManualPreferredTracks # {}
        THEN selection.track \in ManualPreferredTracks
        ELSE IF PrefixTracks # {} THEN selection.track = Min(PrefixTracks)
        ELSE IF transcript_list # <<>> THEN selection.track = 1
        ELSE selection.track = 0


\* The title supplied from outside: the custom override, otherwise the title
\* of the source platform
SuppliedTitle == IF custom_title # <<>> THEN custom_title ELSE youtube_title

\* C21: when a title is supplied from outside (the custom override, otherwise
\* the platform's title), the post's title is that title with only leading
\* and trailing whitespace removed -- no change of case, no term removed, no
\* truncation -- and no AI call is made for the title.
C21_SuppliedTitleVerbatim ==
    (ttl_pc = "done" /\ SuppliedTitle # <<>>) =>
        /\ post_title.title = Strip(SuppliedTitle)
        /\ ~post_title.ai_called

\* The title is the start of the text it was cut from, up to the end of a word.
EndsAtWordBoundary(title, full) ==
    /\ Len(title) <= Len(full)
    /\ LowerAll(title) = LowerAll(Take(full, Len(title)))
    /\ Len(title) < Len(full) => full[Len(title) + 1] = " "

\* C22: a title derived by the AI or made by the fallback is at most 60
\* characters long and, when it was shortened, is cut at a word boundary: it
\* consists of whole words of the title before the cut, and no ellipsis is
\* appended.
C22_TitleCutAtWordBoundary ==
    (ttl_pc = "done" /\ post_title.source \in {"ai", "fallback"}) =>
        /\ Len(post_title.title) <= TitleMax
        /\ EndsAtWordBoundary(post_title.title, post_title.full)


====
